---------------------------- MODULE Spec2Model ----------------------------
(***************************************************************************)
(* A model of the geospatial marketing pipeline of this repository: the    *)
(* aggregation / geo-join core of client_spend_pipeline.py and             *)
(* mapbox_flow.py, and the ingestion and geography steps of pipeline/.     *)
(*                                                                         *)
(* Text is modelled as a sequence of one-character strings, so that        *)
(* substring tests, splitting, lower-casing and zero-padding are computed  *)
(* and not assumed.  A table (DataFrame) is a record                       *)
(*     [cols |-> sequence of column names, rows |-> sequence of rows]      *)
(* where a row is a sequence of cell values aligned with cols.             *)
(***************************************************************************)
EXTENDS Integers, Sequences, FiniteSets, TLC

VARIABLES
    ex_field,   \* expand_zip_list: the zip_field argument
    ex_df,      \* expand_zip_list: the df argument
    ex_out,     \* expand_zip_list: the returned table
    ex_pc       \* expand_zip_list: "call" before, "done" after

exVars == <<ex_field, ex_df, ex_out, ex_pc>>

VARIABLES
    ag_df,      \* aggregate_by_geo: the df argument
    ag,         \* aggregate_by_geo: the returned table and the function's locals
    ag_pc       \* aggregate_by_geo: "call" before, "done" after

agVars == <<ag_df, ag, ag_pc>>

VARIABLES
    am_dfs,     \* aggregate_metrics: the dfs argument
    am,         \* aggregate_metrics: the outcome (status, per-table frames, out)
    am_pc       \* aggregate_metrics: "call" before, "done" after

amVars == <<am_dfs, am, am_pc>>

VARIABLES
    gm_df,      \* map_zip_to_dma: the df argument
    gm_zip_col, \* map_zip_to_dma: the zip_col argument
    gm_mapping, \* map_zip_to_dma: the mapping argument
    gm_out,     \* map_zip_to_dma: the returned table
    gm_pc       \* map_zip_to_dma: "call" before, "done" after

gmVars == <<gm_df, gm_zip_col, gm_mapping, gm_out, gm_pc>>

VARIABLES
    rp_input,   \* run_pipeline: the spend table as load_sources returned it
    rp_df,      \* run_pipeline: spend_df
    rp_mapping, \* run_pipeline: the table load_zip_dma_mapping returns
    rp_pc       \* run_pipeline: the step reached

rpVars == <<rp_input, rp_df, rp_mapping, rp_pc>>

VARIABLES
    hf_raw_latlon, \* client main: the reference table as pd.read_csv returned it
    hf_zip_latlon, \* client main: zip_latlon after lines 314-318
    hf_aggregated, \* client main: the aggregated table handed to create_heatmap_features
    hf_features,   \* create_heatmap_features: the returned list
    hf_pc          \* "read_csv", "call", "done", or "idle"

hfVars == <<hf_raw_latlon, hf_zip_latlon, hf_aggregated, hf_features, hf_pc>>

VARIABLES
    mf_geocode,    \* mapbox_flow: what pgeocode answers for each postal code
    mf_master,     \* mapbox_flow.main: master
    mf_features,   \* mapbox_flow.main: features
    mf_status,     \* mapbox_flow.main: "ok" or the exception raised
    mf_pc          \* "concat", "features", "done", or "idle"

mfVars == <<mf_geocode, mf_master, mf_features, mf_status, mf_pc>>

VARIABLES
    mn_script,     \* which main runs: "client_spend_pipeline" or "mapbox_flow"
    mn_env,        \* the environment's MAPBOX_TOKEN: [set, value]
    mn_sources,    \* the archives to fetch, each "url" or "path"
    mn_i,          \* the archive the run is at
    mn_parts,      \* how many aggregated tables were collected
    mn_effects,    \* the processing done so far, in order
    mn_error,      \* the exception that ended the run, "none" while it runs
    mn_pc          \* the statement reached

mnVars == <<mn_script, mn_env, mn_sources, mn_i, mn_parts, mn_effects, mn_error, mn_pc>>

VARIABLES
    ld_fn,         \* "load_spreadsheets" or "load_data_files"
    ld_files,      \* the list of paths
    ld_i,          \* the next path of the loop
    ld_datasets,   \* load_spreadsheets: datasets (name -> table)
    ld_frames,     \* load_data_files: dataframes
    ld_pc          \* "loop", "returned", or "idle"

ldVars == <<ld_fn, ld_files, ld_i, ld_datasets, ld_frames, ld_pc>>

VARIABLES
    fn,            \* a function called on its own: its name
    fn_args,       \* the arguments of the call
    fn_out,        \* what the call returned or raised
    fn_pc          \* "call" before, "done" after, or "idle"

fnVars == <<fn, fn_args, fn_out, fn_pc>>

VARIABLES
    cl_datasets,   \* client main: the tables load_spreadsheets returned
    cl_latlon,     \* the reference table zip_latlon, as main prepared it
    cl_i,          \* the dataset the loop is at
    cl_agg,        \* what aggregate_by_geo returned for that dataset
    cl_parts,      \* aggregated_parts
    cl_flows,      \* flows_parts
    cl_stages,     \* the stages entered so far, in order
    cl_files,      \* the files written so far, in order
    cl_error,      \* the exception that ended the run, "none" while it runs
    cl_pc          \* the statement reached

clVars == <<cl_datasets, cl_latlon, cl_i, cl_agg, cl_parts, cl_flows, cl_stages,
            cl_files, cl_error, cl_pc>>

vars == <<exVars, agVars, amVars, gmVars, rpVars, hfVars, mfVars, mnVars, ldVars,
          fnVars, clVars>>

-----------------------------------------------------------------------------
(* Bounds of the model.                                                    *)

MaxLen == 3        \* longest geography field (characters) drawn for expansion
MaxRows == 2       \* most rows of a drawn table
MaxCols == 3       \* most columns of a drawn column layout
MaxFiles == 2      \* most files of a drawn file list

-----------------------------------------------------------------------------
(* Text helpers.                                                           *)

Range(s) == {s[i] : i \in 1..Len(s)}

RECURSIVE SumSeq(_)
SumSeq(s) == IF s = <<>> THEN 0 ELSE Head(s) + SumSeq(Tail(s))

RECURSIVE Concat(_)
Concat(ss) == IF ss = <<>> THEN <<>> ELSE Head(ss) \o Concat(Tail(ss))

SelectIdx(n, P(_)) ==
    \* the indices in 1..n satisfying P, in increasing order
    LET F[i \in 0..n] ==
            IF i = 0 THEN <<>>
            ELSE IF P(i) THEN Append(F[i-1], i) ELSE F[i-1]
    IN F[n]

RECURSIVE TextsUpTo(_, _)
TextsUpTo(alphabet, k) ==
    IF k = 0 THEN {<<>>}
    ELSE LET shorter == TextsUpTo(alphabet, k - 1)
         IN shorter \cup {Append(t, c) : t \in shorter, c \in alphabet}

SeqsUpTo(S, k) == UNION {[1..m -> S] : m \in 0..k}

UpperChars == <<"A","B","C","D","E","F","G","H","I","J","K","L","M",
                "N","O","P","Q","R","S","T","U","V","W","X","Y","Z">>
LowerChars == <<"a","b","c","d","e","f","g","h","i","j","k","l","m",
                "n","o","p","q","r","s","t","u","v","w","x","y","z">>

LowerChar(c) ==
    IF \E i \in 1..Len(UpperChars) : UpperChars[i] = c
    THEN LowerChars[CHOOSE i \in 1..Len(UpperChars) : UpperChars[i] = c]
    ELSE c

\* str.lower()
Lower(s) == [i \in 1..Len(s) |-> LowerChar(s[i])]

\* pat in s
Contains(s, pat) ==
    \E i \in 0..(Len(s) - Len(pat)) :
        \A j \in 1..Len(pat) : s[i + j] = pat[j]

\* s.startswith(pat)
StartsWith(s, pat) ==
    /\ Len(pat) <= Len(s)
    /\ \A j \in 1..Len(pat) : s[j] = pat[j]

DigitChars == <<"0","1","2","3","4","5","6","7","8","9">>

RECURSIVE NatStr(_)
\* str(n) for a natural number n
NatStr(n) ==
    IF n < 10 THEN <<DigitChars[n + 1]>>
    ELSE NatStr(n \div 10) \o <<DigitChars[(n % 10) + 1]>>

\* str(n) for an integer n
IntStr(n) == IF n < 0 THEN <<"-">> \o NatStr(-n) ELSE NatStr(n)

-----------------------------------------------------------------------------
(* Column names used by the drawn tables.                                  *)

N_zip == <<"z","i","p">>
N_ZIP == <<"Z","I","P">>
N_dma == <<"d","m","a">>
N_DMA == <<"D","M","A">>
N_spend == <<"s","p","e","n","d">>
N_visits == <<"v","i","s","i","t","s">>
N_region == <<"r","e","g","i","o","n">>
N_zipcode == <<"z","i","p","c","o","d","e">>
N_exclude_zip == <<"e","x","c","l","u","d","e","_","z","i","p">>
N_Exclude_DMA == <<"E","x","c","l","u","d","e","_","D","M","A">>
N_DMA_Name == <<"D","M","A","_","N","a","m","e">>

Z10001 == <<"1","0","0","0","1">>
Z10002 == <<"1","0","0","0","2">>
Z00501 == <<"0","0","5","0","1">>
Z99999 == <<"9","9","9","9","9">>
Z10001_10002 == <<"1","0","0","0","1",","," ","1","0","0","0","2">>
D_NY == <<"N","Y">>
D_LA == <<"L","A">>

-----------------------------------------------------------------------------
(* Cell values.  t is the Python type of the cell: "int", "float" (the     *)
(* exact fraction n/d, d > 0, in lowest terms), "str" (the text s) or      *)
(* "nan" (missing).                                                        *)

IntV(k) == [t |-> "int", n |-> k, d |-> 1, s |-> <<>>]
StrV(x) == [t |-> "str", n |-> 0, d |-> 1, s |-> x]
NaN == [t |-> "nan", n |-> 0, d |-> 1, s |-> <<>>]

IsNum(v) == v.t \in {"int", "float"}
IsNA(v) == v.t = "nan"

Abs(x) == IF x < 0 THEN -x ELSE x

RECURSIVE Gcd(_, _)
Gcd(a, b) == IF b = 0 THEN a ELSE Gcd(b, a % b)

\* the float n/d
FloatV(n, d) ==
    LET g == Gcd(Abs(n), d)
    IN [t |-> "float", n |-> n \div g, d |-> d \div g, s |-> <<>>]

FieldIdx(cols, name) ==
    IF \E i \in 1..Len(cols) : cols[i] = name
    THEN CHOOSE i \in 1..Len(cols) :
             cols[i] = name /\ \A j \in 1..(i-1) : cols[j] # name
    ELSE 0

EmptyFrame == [cols |-> <<>>, rows |-> <<>>]

-----------------------------------------------------------------------------
(* client_spend_pipeline.expand_zip_list                                   *)

\* the characters matched by [;,\s]
SplitDelims == {";", ",", " ", "\t", "\n", "\r"}
Whitespace == {" ", "\t", "\n", "\r"}

RECURSIVE FracDigits(_, _, _)
FracDigits(r, d, k) ==
    IF r = 0 \/ k = 0 THEN <<>>
    ELSE <<DigitChars[((10 * r) \div d) + 1]>> \o FracDigits((10 * r) % d, d, k - 1)

\* digits a float's text carries at most
FloatReprDigits == 17

\* str(x) for the float n/d
FloatStr(n, d) ==
    LET a == Abs(n)
        frac == FracDigits(a % d, d, FloatReprDigits)
    IN (IF n < 0 THEN <<"-">> ELSE <<>>) \o NatStr(a \div d) \o <<".">>
           \o (IF frac = <<>> THEN <<"0">> ELSE frac)

\* str(value)
ToStr(v) ==
    CASE v.t = "str" -> v.s
      [] v.t = "int" -> IntStr(v.n)
      [] v.t = "float" -> FloatStr(v.n, v.d)
      [] OTHER -> <<"n","a","n">>

ReSplitCommaOnly(s) ==
    LET F[i \in 0..Len(s)] ==
            IF i = 0 THEN <<<<>>>>
            ELSE IF s[i] = ","
                 THEN Append(F[i-1], <<>>)
                 ELSE [F[i-1] EXCEPT ![Len(F[i-1])] = Append(@, s[i])]
    IN F[Len(s)]

RECURSIVE ReSplit(_)
\* re.split(r"[;,\s]+", s)
ReSplit(s) ==
    IF \A i \in 1..Len(s) : s[i] \notin SplitDelims
    THEN <<s>>
    ELSE LET p == CHOOSE i \in 1..Len(s) :
                      /\ s[i] \in SplitDelims
                      /\ \A j \in 1..(i-1) : s[j] \notin SplitDelims
             q == IF \E i \in (p+1)..Len(s) : s[i] \notin SplitDelims
                  THEN CHOOSE i \in (p+1)..Len(s) :
                           /\ s[i] \notin SplitDelims
                           /\ \A j \in (p+1)..(i-1) : s[j] \in SplitDelims
                  ELSE Len(s) + 1
         IN <<SubSeq(s, 1, p - 1)>> \o ReSplit(SubSeq(s, q, Len(s)))

RECURSIVE Strip(_)
\* str.strip()
Strip(z) ==
    IF z = <<>> THEN z
    ELSE IF Head(z) \in Whitespace THEN Strip(Tail(z))
    ELSE IF z[Len(z)] \in Whitespace THEN Strip(SubSeq(z, 1, Len(z) - 1))
    ELSE z

\* the rows one input row expands to (lines 97-104)
ExpandRow(row, zi) ==
    LET zips == ReSplit(ToStr(row[zi]))
        kept == SelectIdx(Len(zips), LAMBDA k : Strip(zips[k]) # <<>>)
    IN [m \in 1..Len(kept) |-> [row EXCEPT ![zi] = StrV(Strip(zips[kept[m]]))]]

ExpandZipList(zip_field, df) ==
    LET zi == FieldIdx(df.cols, zip_field)
    IN IF zi = 0 THEN df
       ELSE LET rows == Concat([r \in 1..Len(df.rows) |-> ExpandRow(df.rows[r], zi)])
            IN IF rows = <<>> THEN EmptyFrame
               ELSE [cols |-> df.cols, rows |-> rows]

-----------------------------------------------------------------------------
(* Numbers and ordering of cell values.                                    *)

\* a < b for numeric cells
NumLess(a, b) == a.n * b.d < b.n * a.d

NumEq(a, b) == a.n * b.d = b.n * a.d

\* a + b for numeric cells: an int when both are ints
NumAdd(a, b) ==
    IF a.t = "int" /\ b.t = "int" THEN IntV(a.n + b.n)
    ELSE FloatV(a.n * b.d + b.n * a.d, a.d * b.d)

RECURSIVE NumSum(_)
\* Series.sum(): missing cells are skipped, the empty sum is 0
NumSum(vs) ==
    IF vs = <<>> THEN IntV(0)
    ELSE IF IsNA(Head(vs)) THEN NumSum(Tail(vs))
    ELSE NumAdd(Head(vs), NumSum(Tail(vs)))

\* the characters of the model in code-point order
CharOrder == <<"\t", "\n", "\r", " ", ",", "-", ".",
               "0","1","2","3","4","5","6","7","8","9", ";",
               "A","B","C","D","E","F","G","H","I","J","K","L","M",
               "N","O","P","Q","R","S","T","U","V","W","X","Y","Z", "_",
               "a","b","c","d","e","f","g","h","i","j","k","l","m",
               "n","o","p","q","r","s","t","u","v","w","x","y","z">>

Ord(c) == CHOOSE i \in 1..Len(CharOrder) : CharOrder[i] = c

RECURSIVE TextLess(_, _)
\* a < b for texts
TextLess(a, b) ==
    IF b = <<>> THEN FALSE
    ELSE IF a = <<>> THEN TRUE
    ELSE IF Head(a) = Head(b) THEN TextLess(Tail(a), Tail(b))
    ELSE Ord(Head(a)) < Ord(Head(b))

\* a < b for key cells of one column
CellLess(a, b) ==
    IF a.t = "str" /\ b.t = "str" THEN TextLess(a.s, b.s)
    ELSE IF IsNum(a) /\ IsNum(b) THEN NumLess(a, b)
    ELSE a.t = "str" /\ b.t # "str"

RECURSIVE KeyLess(_, _)
\* a < b for group keys (tuples of cells)
KeyLess(a, b) ==
    IF a = <<>> \/ b = <<>> THEN FALSE
    ELSE IF Head(a) = Head(b) THEN KeyLess(Tail(a), Tail(b))
    ELSE CellLess(Head(a), Head(b))

RECURSIVE SortKeys(_)
\* the keys of a set in ascending order
SortKeys(K) ==
    IF K = {} THEN <<>>
    ELSE LET m == CHOOSE k \in K : \A o \in K : ~KeyLess(o, k)
         IN <<m>> \o SortKeys(K \ {m})

-----------------------------------------------------------------------------
(* Tables.                                                                 *)

Column(df, c) == [r \in 1..Len(df.rows) |-> df.rows[r][c]]

\* df[c].dtype.kind: "i" (integers), "f" (floats) or "O" (objects)
DtypeKind(df, c) ==
    LET col == Column(df, c)
    IN IF \A r \in 1..Len(col) : col[r].t = "int" THEN "i"
       ELSE IF \A r \in 1..Len(col) : col[r].t \in {"int", "float", "nan"} THEN "f"
       ELSE "O"

-----------------------------------------------------------------------------
(* client_spend_pipeline.normalize_numeric                                 *)

\* Series.min() / Series.max(): missing cells are skipped; NaN if none is left
ColMin(col) ==
    LET present == {r \in 1..Len(col) : ~IsNA(col[r])}
    IN IF present = {} THEN NaN
       ELSE col[CHOOSE r \in present : \A o \in present : ~NumLess(col[o], col[r])]

ColMax(col) ==
    LET present == {r \in 1..Len(col) : ~IsNA(col[r])}
    IN IF present = {} THEN NaN
       ELSE col[CHOOSE r \in present : \A o \in present : ~NumLess(col[r], col[o])]

\* (v - min_val) / (max_val - min_val)
MinMaxScale(v, min_val, max_val) ==
    IF IsNA(v) THEN NaN
    ELSE FloatV((v.n * min_val.d - min_val.n * v.d) * (max_val.d * min_val.d),
                (v.d * min_val.d) * (max_val.n * min_val.d - min_val.n * max_val.d))

NormalizeColumnSkipped(df, c) == Column(df, c)

\* lines 82-87, for one column
NormalizeColumn(df, c) ==
    LET col == Column(df, c)
        min_val == ColMin(col)
        max_val == ColMax(col)
    IN IF ~IsNA(min_val) /\ ~IsNA(max_val) /\ ~NumEq(max_val, min_val)
       THEN [r \in 1..Len(col) |-> MinMaxScale(col[r], min_val, max_val)]
       ELSE [r \in 1..Len(col) |-> IntV(0)]

\* normalize_numeric(df, columns), columns given as names
NormalizeNumeric(df, columns) ==
    LET scaled == [c \in 1..Len(df.cols) |->
                      IF df.cols[c] \in Range(columns)
                      THEN NormalizeColumn(df, c) ELSE Column(df, c)]
    IN [cols |-> df.cols,
        rows |-> [r \in 1..Len(df.rows) |->
                     [c \in 1..Len(df.cols) |-> scaled[c][r]]]]

-----------------------------------------------------------------------------
(* client_spend_pipeline.aggregate_by_geo                                  *)

T_zip == <<"z","i","p">>
T_dma == <<"d","m","a">>
T_exclude == <<"e","x","c","l","u","d","e">>

\* None
NoColumn == <<>>

FirstWhere(cols, P(_)) ==
    IF \E i \in 1..Len(cols) : P(cols[i])
    THEN cols[CHOOSE i \in 1..Len(cols) :
                  P(cols[i]) /\ \A j \in 1..(i-1) : ~P(cols[j])]
    ELSE NoColumn

DetectZipColLast(cols) ==
    IF \E i \in 1..Len(cols) : Contains(cols[i], T_zip)
    THEN cols[CHOOSE i \in 1..Len(cols) :
                  Contains(cols[i], T_zip)
                      /\ \A j \in (i+1)..Len(cols) : ~Contains(cols[j], T_zip)]
    ELSE NoColumn

\* lines 113-117, over the lower-cased column names
DetectZipCol(cols) == FirstWhere(cols, LAMBDA c : Contains(c, T_zip))

DetectDmaColNoExclude(cols) == FirstWhere(cols, LAMBDA c : Contains(c, T_dma))

\* lines 118-122, over the lower-cased column names
DetectDmaCol(cols) ==
    FirstWhere(cols, LAMBDA c : Contains(c, T_dma) /\ ~StartsWith(c, T_exclude))

KeyOf(row, gidx) == [k \in 1..Len(gidx) |-> row[gidx[k]]]

GroupKeysKeepNaN(df, gidx) ==
    {KeyOf(df.rows[r], gidx) : r \in 1..Len(df.rows)}

\* the groups of df.groupby(group_cols): rows with a missing key cell are
\* left out (dropna=True)
GroupKeys(df, gidx) ==
    {KeyOf(df.rows[r], gidx) : r \in
        {r \in 1..Len(df.rows) : \A k \in 1..Len(gidx) : ~IsNA(df.rows[r][gidx[k]])}}

\* df.groupby(group_cols)[value_cols].sum().reset_index(): one row per
\* group in key order, the key cells then the sums
GroupBySum(df, gidx, vidx) ==
    LET keys == SortKeys(GroupKeys(df, gidx))
        members(k) == SelectIdx(Len(df.rows), LAMBDA r : KeyOf(df.rows[r], gidx) = k)
        total(k, c) == NumSum([m \in 1..Len(members(k)) |-> df.rows[members(k)[m]][c]])
    IN [g \in 1..Len(keys) |->
           keys[g] \o [v \in 1..Len(vidx) |-> total(keys[g], vidx[v])]]

\* aggregate_by_geo(df): the returned table with the locals the function
\* computed on the way; status is "ok" or the exception raised
AggregateByGeo(df) ==
    LET lowered == [cols |-> [c \in 1..Len(df.cols) |-> Lower(df.cols[c])],
                    rows |-> df.rows]
        zip_col == DetectZipCol(lowered.cols)
        dma_col == DetectDmaCol(lowered.cols)
        expanded == ExpandZipList(zip_col, lowered)
        nidx == SelectIdx(Len(expanded.cols),
                          LAMBDA c : DtypeKind(expanded, c) \in {"i", "f"})
        numeric_cols == [k \in 1..Len(nidx) |-> expanded.cols[nidx[k]]]
        normalized == NormalizeNumeric(expanded, numeric_cols)
        group_cols == IF dma_col # NoColumn THEN <<zip_col, dma_col>> ELSE <<zip_col>>
        gidx == [k \in 1..Len(group_cols) |-> FieldIdx(normalized.cols, group_cols[k])]
        renamed == [k \in 1..Len(group_cols) |->
                       IF group_cols[k] = zip_col THEN N_ZIP ELSE N_DMA]
        base == [zip_col |-> zip_col, dma_col |-> dma_col, expanded |-> expanded,
                 numeric_cols |-> numeric_cols, normalized |-> normalized,
                 group_keys |-> {}, status |-> "ok", out |-> EmptyFrame]
    IN IF zip_col = NoColumn
       THEN [base EXCEPT !.expanded = lowered, !.normalized = lowered,
                         !.numeric_cols = <<>>]
       ELSE IF \E k \in 1..Len(gidx) : gidx[k] = 0
       THEN \* the expansion left no row, hence no column to group by
            [base EXCEPT !.status = "KeyError"]
       ELSE IF \E k \in 1..Len(group_cols) : group_cols[k] \in Range(numeric_cols)
       THEN \* a key column is also summed: reset_index cannot insert it
            [base EXCEPT !.group_keys = GroupKeys(normalized, gidx),
                         !.status = "ValueError"]
       ELSE [base EXCEPT
               !.group_keys = GroupKeys(normalized, gidx),
               !.out = [cols |-> renamed \o numeric_cols,
                        rows |-> GroupBySum(normalized, gidx, nidx)]]

-----------------------------------------------------------------------------
(* mapbox_flow.aggregate_metrics                                           *)

N_destination_zip == <<"d","e","s","t","i","n","a","t","i","o","n","_","z","i","p">>
N_destination_dma == <<"d","e","s","t","i","n","a","t","i","o","n","_","d","m","a">>
N_amount == <<"a","m","o","u","n","t">>
N_impressions == <<"i","m","p","r","e","s","s","i","o","n","s">>
N_num_buying == <<"n","u","m","_","b","u","y","i","n","g","_","h","h","l","d","_",
                  "i","n","d","v","s">>
N_matched_visitors == <<"m","a","t","c","h","e","d","_","v","i","s","i","t","o","r","s">>

\* {c.lower(): c for c in df.columns}.get(name): the last column whose
\* lower-cased name is name, None if there is none
ColsGet(cols, name) ==
    IF \E i \in 1..Len(cols) : Lower(cols[i]) = name
    THEN cols[CHOOSE i \in 1..Len(cols) :
                  Lower(cols[i]) = name /\ \A j \in (i+1)..Len(cols) : Lower(cols[j]) # name]
    ELSE NoColumn

\* a or b or ... over column names
RECURSIVE FirstTruthy(_)
FirstTruthy(names) ==
    IF names = <<>> THEN NoColumn
    ELSE IF Head(names) # NoColumn THEN Head(names)
    ELSE FirstTruthy(Tail(names))

\* [c for c in names if c]
Truthy(names) ==
    LET keep == SelectIdx(Len(names), LAMBDA k : names[k] # NoColumn)
    IN [k \in 1..Len(keep) |-> names[keep[k]]]

\* df[names]
SelectCols(df, names) ==
    [cols |-> names,
     rows |-> [r \in 1..Len(df.rows) |->
                  [k \in 1..Len(names) |-> df.rows[r][FieldIdx(df.cols, names[k])]]]]

\* df.dropna(subset=names, how="all")
DropNaAll(df, names) ==
    LET keep == SelectIdx(Len(df.rows),
                    LAMBDA r : \E k \in 1..Len(names) :
                                   ~IsNA(df.rows[r][FieldIdx(df.cols, names[k])]))
    IN [cols |-> df.cols, rows |-> [k \in 1..Len(keep) |-> df.rows[keep[k]]]]

\* [c for c in names if not df[c].isna().all()]
NotAllNaN(df, names) ==
    LET keep == SelectIdx(Len(names),
                    LAMBDA k : \E r \in 1..Len(df.rows) :
                                   ~IsNA(df.rows[r][FieldIdx(df.cols, names[k])]))
    IN [k \in 1..Len(keep) |-> names[keep[k]]]

\* df.groupby(names).sum(numeric_only=True).reset_index()
GroupBySumNumeric(df, names) ==
    LET gidx == [k \in 1..Len(names) |-> FieldIdx(df.cols, names[k])]
        vidx == SelectIdx(Len(df.cols),
                    LAMBDA c : df.cols[c] \notin Range(names)
                                   /\ DtypeKind(df, c) \in {"i", "f"})
    IN [cols |-> names \o [v \in 1..Len(vidx) |-> df.cols[vidx[v]]],
        rows |-> GroupBySum(df, gidx, vidx)]

\* the union of the frames' columns in order of first appearance
RECURSIVE UnionCols(_)
UnionCols(frames) ==
    IF frames = <<>> THEN <<>>
    ELSE LET before == UnionCols(SubSeq(frames, 1, Len(frames) - 1))
             last == frames[Len(frames)].cols
             new == SelectIdx(Len(last), LAMBDA c : last[c] \notin Range(before))
         IN before \o [k \in 1..Len(new) |-> last[new[k]]]

\* pd.concat(frames, axis=0, ignore_index=True)
ConcatFrames(frames) ==
    LET cols == UnionCols(frames)
        widen(f) == [r \in 1..Len(f.rows) |->
                        [c \in 1..Len(cols) |->
                            IF FieldIdx(f.cols, cols[c]) = 0 THEN NaN
                            ELSE f.rows[r][FieldIdx(f.cols, cols[c])]]]
    IN [cols |-> cols,
        rows |-> Concat([k \in 1..Len(frames) |-> widen(frames[k])])]

\* lines 62-82 for one table: <<>> when the table is skipped, else <<agg>>
MetricsFrame(df) ==
    LET zip_col == FirstTruthy(<<ColsGet(df.cols, N_destination_zip),
                                 ColsGet(df.cols, N_zip), ColsGet(df.cols, N_zipcode)>>)
        dma_col == FirstTruthy(<<ColsGet(df.cols, N_destination_dma),
                                 ColsGet(df.cols, N_dma)>>)
        spend_col == FirstTruthy(<<ColsGet(df.cols, N_spend), ColsGet(df.cols, N_amount)>>)
        imp_col == ColsGet(df.cols, N_impressions)
        visit_col == ColsGet(df.cols, N_visits)
        match_col == FirstTruthy(<<ColsGet(df.cols, N_num_buying),
                                   ColsGet(df.cols, N_matched_visitors)>>)
        gcols == Truthy(<<zip_col, dma_col>>)
        metrics == Truthy(<<spend_col, imp_col, visit_col, match_col>>)
        subset == DropNaAll(SelectCols(df, gcols \o metrics), gcols)
        gcols_valid == NotAllNaN(subset, gcols)
    IN IF zip_col = NoColumn /\ dma_col = NoColumn THEN <<>>
       ELSE IF gcols_valid = <<>> THEN <<>>
       ELSE <<GroupBySumNumeric(subset, gcols_valid)>>

MetricsKeyNames == <<N_destination_zip, N_zip, N_zipcode, N_destination_dma, N_dma>>

\* lines 94-100
MetricsRename(name) ==
    IF name \in {N_destination_zip, N_zip, N_zipcode} THEN N_ZIP
    ELSE IF name = N_destination_dma THEN N_DMA
    ELSE name

MetricsMergedKeepAll(merged, gcols) == merged

\* line 89
MetricsMerged(merged, gcols) == DropNaAll(merged, gcols)

\* aggregate_metrics(dfs): status is "ok" or the exception raised
AggregateMetrics(dfs) ==
    LET frames == Concat([k \in 1..Len(dfs) |-> MetricsFrame(dfs[k])])
        concat == ConcatFrames(frames)
        present == SelectIdx(Len(MetricsKeyNames),
                       LAMBDA k : MetricsKeyNames[k] \in Range(concat.cols))
        gcols == [k \in 1..Len(present) |-> MetricsKeyNames[present[k]]]
        merged == MetricsMerged(concat, gcols)
        gcols_valid == NotAllNaN(merged, gcols)
        out == GroupBySumNumeric(merged, gcols_valid)
    IN IF frames = <<>>
       THEN [status |-> "ValueError", keys |-> <<>>, out |-> EmptyFrame]
       ELSE IF gcols_valid = <<>>
       THEN \* no group keys passed
            [status |-> "ValueError", keys |-> <<>>, out |-> EmptyFrame]
       ELSE [status |-> "ok", keys |-> gcols_valid,
             out |-> [cols |-> [c \in 1..Len(out.cols) |-> MetricsRename(out.cols[c])],
                      rows |-> out.rows]]

-----------------------------------------------------------------------------
(* pipeline/geography.py                                                   *)

N_STATE == <<"S","T","A","T","E">>

\* width of a padded ZIP code
ZipWidth == 5

RECURSIVE Zeros(_)
Zeros(k) == IF k <= 0 THEN <<>> ELSE <<"0">> \o Zeros(k - 1)

\* str.zfill(width): zeros go after a leading sign
ZFill(t, width) ==
    IF Len(t) >= width THEN t
    ELSE IF t # <<>> /\ Head(t) \in {"+", "-"}
         THEN <<Head(t)>> \o Zeros(width - Len(t)) \o Tail(t)
         ELSE Zeros(width - Len(t)) \o t

StandardizeZipNoPad(df, column) ==
    LET zi == FieldIdx(df.cols, column)
    IN [cols |-> df.cols,
        rows |-> [r \in 1..Len(df.rows) |->
                     [df.rows[r] EXCEPT ![zi] = StrV(ToStr(df.rows[r][zi]))]]]

\* standardize_zip(df, column)
StandardizeZip(df, column) ==
    LET zi == FieldIdx(df.cols, column)
    IN [cols |-> df.cols,
        rows |-> [r \in 1..Len(df.rows) |->
                     [df.rows[r] EXCEPT ![zi] = StrV(ZFill(ToStr(df.rows[r][zi]), ZipWidth))]]]

\* the columns of right that a merge on left_on / right_on appends: the
\* right key column is shared when both keys carry one name
MergedRightCols(left_on, right_on, right) ==
    SelectIdx(Len(right.cols),
              LAMBDA c : ~(left_on = right_on /\ right.cols[c] = right_on))

MergeInner(left, left_on, right, right_on) ==
    LET li == FieldIdx(left.cols, left_on)
        ri == FieldIdx(right.cols, right_on)
        keep == MergedRightCols(left_on, right_on, right)
        matches(r) == SelectIdx(Len(right.rows),
                          LAMBDA m : right.rows[m][ri] = left.rows[r][li])
        joined(r) == [k \in 1..Len(matches(r)) |->
                         left.rows[r] \o
                             [c \in 1..Len(keep) |-> right.rows[matches(r)[k]][keep[c]]]]
    IN [cols |-> left.cols \o [c \in 1..Len(keep) |-> right.cols[keep[c]]],
        rows |-> Concat([r \in 1..Len(left.rows) |-> joined(r)])]

\* left.merge(right, left_on=left_on, right_on=right_on, how="left"): every
\* left row in order, once per matching right row, or once with missing
\* right cells when nothing matches
MergeLeft(left, left_on, right, right_on) ==
    LET li == FieldIdx(left.cols, left_on)
        ri == FieldIdx(right.cols, right_on)
        keep == MergedRightCols(left_on, right_on, right)
        matches(r) == SelectIdx(Len(right.rows),
                          LAMBDA m : right.rows[m][ri] = left.rows[r][li])
        joined(r) ==
            IF matches(r) = <<>>
            THEN <<left.rows[r] \o [c \in 1..Len(keep) |-> NaN]>>
            ELSE [k \in 1..Len(matches(r)) |->
                     left.rows[r] \o
                         [c \in 1..Len(keep) |-> right.rows[matches(r)[k]][keep[c]]]]
    IN [cols |-> left.cols \o [c \in 1..Len(keep) |-> right.cols[keep[c]]],
        rows |-> Concat([r \in 1..Len(left.rows) |-> joined(r)])]

\* map_zip_to_dma(df, zip_col, mapping)
MapZipToDma(df, zip_col, mapping) ==
    MergeLeft(StandardizeZip(df, zip_col), zip_col, mapping, N_ZIP)

-----------------------------------------------------------------------------
(* pipeline/preprocessing.py                                               *)

T_unknown == <<"u","n","k","n","o","w","n">>

\* is_numeric_dtype(df[c])
IsNumericCol(df, c) == DtypeKind(df, c) \in {"i", "f"}

\* fill_missing_values(df)
FillMissingValues(df) ==
    [cols |-> df.cols,
     rows |-> [r \in 1..Len(df.rows) |->
                  [c \in 1..Len(df.cols) |->
                      IF ~IsNA(df.rows[r][c]) THEN df.rows[r][c]
                      ELSE IF IsNumericCol(df, c) THEN IntV(0)
                      ELSE StrV(T_unknown)]]]

RECURSIVE SortInts(_)
\* the integers of a bag (a function from positions to integers), ascending
SortInts(f) ==
    IF DOMAIN f = {} THEN <<>>
    ELSE LET i == CHOOSE j \in DOMAIN f : \A k \in DOMAIN f : f[j] <= f[k]
         IN <<f[i]>> \o SortInts([k \in DOMAIN f \ {i} |-> f[k]])

\* four times the q-th quartile of sorted values, linearly interpolated
Quartile4(sorted, q) ==
    LET pos == (Len(sorted) - 1) * q
        lo == (pos \div 4) + 1
        part == pos % 4
    IN IF part = 0 THEN 4 * sorted[lo]
       ELSE 4 * sorted[lo] + part * (sorted[lo + 1] - sorted[lo])

\* RobustScaler().fit_transform on one integer column: (x - median) / IQR,
\* the IQR replaced by 1 when it is 0
RobustScaleColumn(col) ==
    LET sorted == SortInts([r \in 1..Len(col) |-> col[r].n])
        median4 == Quartile4(sorted, 2)
        iqr4 == Quartile4(sorted, 3) - Quartile4(sorted, 1)
    IN [r \in 1..Len(col) |->
           FloatV(4 * col[r].n - median4, IF iqr4 = 0 THEN 4 ELSE iqr4)]

PipelineNormalizeNumericNone(df, columns) == df

\* normalize_numeric(df, columns), method "robust"
PipelineNormalizeNumeric(df, columns) ==
    LET scaled == [c \in 1..Len(df.cols) |->
                      IF df.cols[c] \in Range(columns)
                      THEN RobustScaleColumn(Column(df, c)) ELSE Column(df, c)]
    IN [cols |-> df.cols,
        rows |-> [r \in 1..Len(df.rows) |->
                     [c \in 1..Len(df.cols) |-> scaled[c][r]]]]

\* the distinct texts of a column in ascending order
Categories(col) ==
    LET keys == SortKeys({<<col[r]>> : r \in 1..Len(col)})
    IN [k \in 1..Len(keys) |-> keys[k][1]]

\* encode_categorical_onehot(df, columns): the columns are dropped and one
\* indicator column <column>_<category> per category is appended
EncodeCategoricalOnehot(df, columns) ==
    LET kept == SelectIdx(Len(df.cols), LAMBDA c : df.cols[c] \notin Range(columns))
        cidx == [k \in 1..Len(columns) |-> FieldIdx(df.cols, columns[k])]
        cats == [k \in 1..Len(columns) |-> Categories(Column(df, cidx[k]))]
        names == Concat([k \in 1..Len(columns) |->
                     [j \in 1..Len(cats[k]) |-> columns[k] \o <<"_">> \o ToStr(cats[k][j])]])
        flags(r) == Concat([k \in 1..Len(columns) |->
                        [j \in 1..Len(cats[k]) |->
                            IF df.rows[r][cidx[k]] = cats[k][j]
                            THEN FloatV(1, 1) ELSE FloatV(0, 1)]])
    IN [cols |-> [k \in 1..Len(kept) |-> df.cols[kept[k]]] \o names,
        rows |-> [r \in 1..Len(df.rows) |->
                     [k \in 1..Len(kept) |-> df.rows[r][kept[k]]] \o flags(r)]]

-----------------------------------------------------------------------------
(* pipeline/main.py, run_pipeline: the spend table from ingestion to the   *)
(* ZIP-to-DMA join (lines 43-64)                                           *)

\* names of the columns of df satisfying P on their position
ColsWhere(df, P(_)) ==
    LET idx == SelectIdx(Len(df.cols), P)
    IN [k \in 1..Len(idx) |-> df.cols[idx[k]]]

\* line 51
PipelineNumericCols(df) == ColsWhere(df, LAMBDA c : DtypeKind(df, c) # "O")

\* line 55
PipelineCatCols(df) ==
    ColsWhere(df, LAMBDA c : DtypeKind(df, c) = "O" /\ df.cols[c] # N_ZIP)

-----------------------------------------------------------------------------
(* client_spend_pipeline.main, lines 313-318 (the coordinate reference     *)
(* table), and client_spend_pipeline.create_heatmap_features               *)

N_latitude == <<"l","a","t","i","t","u","d","e">>
N_longitude == <<"l","o","n","g","i","t","u","d","e">>
N_LAT == <<"L","A","T">>
N_LNG == <<"L","N","G">>
N_value == <<"v","a","l","u","e">>

HeatZipWidth == 5

\* df[name] = col: an existing column is replaced, a new one is appended
SetColumn(df, name, col) ==
    LET i == FieldIdx(df.cols, name)
    IN IF i = 0
       THEN [cols |-> Append(df.cols, name),
             rows |-> [r \in 1..Len(df.rows) |-> Append(df.rows[r], col[r])]]
       ELSE [cols |-> df.cols,
             rows |-> [r \in 1..Len(df.rows) |->
                          [df.rows[r] EXCEPT ![i] = col[r]]]]

\* line 314: zip_latlon[zip_latlon.columns[0]].astype(str).str.zfill(5)
PaddedFirstColumn(df) ==
    [r \in 1..Len(df.rows) |-> StrV(ZFill(ToStr(df.rows[r][1]), HeatZipWidth))]

\* lines 314-318
PrepareZipLatLon(raw) ==
    LET z == SetColumn(raw, N_ZIP, PaddedFirstColumn(raw))
        has(n) == FieldIdx(z.cols, n) # 0
    IN IF (~has(N_latitude) \/ ~has(N_longitude)) /\ has(N_LAT) /\ has(N_LNG)
       THEN [z EXCEPT !.cols =
                [c \in 1..Len(z.cols) |->
                    IF z.cols[c] = N_LAT THEN N_latitude
                    ELSE IF z.cols[c] = N_LNG THEN N_longitude
                    ELSE z.cols[c]]]
       ELSE z

\* float(x) of a number
ToFloat(v) == IF v.t = "int" THEN FloatV(v.n, 1) ELSE v

\* row.to_dict(): the row's cells under their column names, in column order
RowToDict(df, row) == [cols |-> df.cols, vals |-> row]

\* d[key] = v
DictSet(d, key, v) ==
    LET i == FieldIdx(d.cols, key)
    IN IF i = 0
       THEN [cols |-> Append(d.cols, key), vals |-> Append(d.vals, v)]
       ELSE [d EXCEPT !.vals[i] = v]

PointFeature(lon, lat, props) ==
    [type |-> "Feature",
     geometry |-> [type |-> "Point", coordinates |-> <<lon, lat>>],
     properties |-> props]

HeatZipCodeUnpadded(df, row) == ToStr(row[FieldIdx(df.cols, N_ZIP)])

\* line 191: str(row["ZIP"]).zfill(5)
HeatZipCode(df, row) == ZFill(ToStr(row[FieldIdx(df.cols, N_ZIP)]), HeatZipWidth)

\* line 192: the rows of zip_latlon whose ZIP equals zip_code
HeatRec(zip_latlon, zip_code) ==
    LET zi == FieldIdx(zip_latlon.cols, N_ZIP)
    IN SelectIdx(Len(zip_latlon.rows),
                 LAMBDA m : zip_latlon.rows[m][zi] = StrV(zip_code))

\* lines 195-205
HeatFeature(df, row, rec0, zip_latlon) ==
    LET props == RowToDict(df, row)
        si == FieldIdx(props.cols, N_spend)
        lon == rec0[FieldIdx(zip_latlon.cols, N_longitude)]
        lat == rec0[FieldIdx(zip_latlon.cols, N_latitude)]
    IN PointFeature(ToFloat(lon), ToFloat(lat),
                    IF si # 0 THEN DictSet(props, N_value, props.vals[si])
                    ELSE props)

CreateHeatmapFeatures(df, zip_latlon) ==
    LET F[i \in 0..Len(df.rows)] ==
            IF i = 0 THEN <<>>
            ELSE LET rec == HeatRec(zip_latlon, HeatZipCode(df, df.rows[i]))
                 IN IF rec = <<>> THEN F[i-1]
                    ELSE Append(F[i-1],
                                HeatFeature(df, df.rows[i],
                                            zip_latlon.rows[rec[1]], zip_latlon))
    IN F[Len(df.rows)]

-----------------------------------------------------------------------------
(* mapbox_flow.add_coordinates and the point features of mapbox_flow.main  *)
(* (lines 264-279)                                                         *)

\* nomi.query_postal_code: the coordinates pgeocode knows for a postal
\* code, missing ones for a code it does not know
QueryPostalCode(geocode, code) ==
    IF code \in DOMAIN geocode THEN geocode[code] ELSE <<NaN, NaN>>

AddCoordinates(df, geocode) ==
    LET zi == FieldIdx(df.cols, N_ZIP)
    IN IF zi = 0 THEN df
       ELSE [cols |-> df.cols \o <<N_latitude, N_longitude>>,
             rows |-> [r \in 1..Len(df.rows) |->
                          df.rows[r] \o
                              QueryPostalCode(geocode, ToStr(df.rows[r][zi]))]]

\* df.dropna(subset=names): the rows with a value in every named column
DropNaSubset(df, names) ==
    LET keep == SelectIdx(Len(df.rows),
                    LAMBDA r : \A k \in 1..Len(names) :
                                  ~IsNA(df.rows[r][FieldIdx(df.cols, names[k])]))
    IN [cols |-> df.cols, rows |-> [k \in 1..Len(keep) |-> df.rows[keep[k]]]]

\* lines 268-279
FlowPointFeatures(master) ==
    IF FieldIdx(master.cols, N_latitude) = 0 \/ FieldIdx(master.cols, N_longitude) = 0
    THEN [status |-> "KeyError", features |-> <<>>]
    ELSE LET kept == DropNaSubset(master, <<N_latitude, N_longitude>>)
         IN [status |-> "ok",
             features |->
                 [r \in 1..Len(kept.rows) |->
                     PointFeature(kept.rows[r][FieldIdx(kept.cols, N_longitude)],
                                  kept.rows[r][FieldIdx(kept.cols, N_latitude)],
                                  RowToDict(kept, kept.rows[r]))]]

-----------------------------------------------------------------------------
(* The MAPBOX_TOKEN check of client_spend_pipeline.main (lines 299-301)    *)
(* and mapbox_flow.main (lines 245-247)                                    *)

EnvUnset == [set |-> FALSE, value |-> <<>>]
EnvSet(v) == [set |-> TRUE, value |-> v]

TokenMissingUnsetOnly(env) == ~env.set

\* "not token" of os.getenv / os.environ.get: None when unset, and the
\* empty string is falsy as well
TokenMissing(env) == ~env.set \/ env.value = <<>>

-----------------------------------------------------------------------------
(* client_spend_pipeline.load_spreadsheets and mapbox_flow.load_data_files *)

T_csv == <<".","c","s","v">>
T_xlsx == <<".","x","l","s","x">>
T_xls == <<".","x","l","s">>

LastDot(name) ==
    IF \E i \in 1..Len(name) : name[i] = "."
    THEN CHOOSE i \in 1..Len(name) :
             name[i] = "." /\ \A j \in (i+1)..Len(name) : name[j] # "."
    ELSE 0

\* Path.suffix: from the last dot of the file name, empty when there is no
\* dot, or the only dot leads or ends the name
PathSuffix(name) ==
    LET i == LastDot(name)
    IN IF i <= 1 \/ i = Len(name) THEN <<>> ELSE SubSeq(name, i, Len(name))

\* Path.stem: the file name without its suffix
PathStem(name) == SubSeq(name, 1, Len(name) - Len(PathSuffix(name)))

\* the table pandas reads from a file, skipping skiprows leading rows
ReadTable(f, skiprows) == [dir |-> f.dir, name |-> f.name, skiprows |-> skiprows]

\* datasets[name] = df on a dict (insertion-ordered)
DictPut(datasets, name, df) ==
    IF \E i \in 1..Len(datasets) : datasets[i].name = name
    THEN [i \in 1..Len(datasets) |->
             IF datasets[i].name = name THEN [name |-> name, df |-> df]
             ELSE datasets[i]]
    ELSE Append(datasets, [name |-> name, df |-> df])

\* one turn of the loop of load_spreadsheets (lines 56-74)
LoadSpreadsheetsFile(datasets, f) ==
    LET name == PathStem(f.name)
        suffix == Lower(PathSuffix(f.name))
    IN IF suffix = T_csv
       THEN IF f.content = "corrupt" THEN datasets
            ELSE DictPut(datasets, name, ReadTable(f, 0))
       ELSE IF suffix \in {T_xlsx, T_xls}
       THEN IF f.content = "corrupt" THEN datasets
            ELSE IF f.content = "preamble"
                 THEN DictPut(datasets, name, ReadTable(f, 6))
                 ELSE DictPut(datasets, name, ReadTable(f, 0))
       ELSE datasets

\* one turn of the loop of load_data_files (lines 44-54)
LoadDataFile(dataframes, p) ==
    LET suffix == Lower(PathSuffix(p.name))
    IN IF suffix = T_csv
       THEN IF p.content = "corrupt" THEN dataframes
            ELSE Append(dataframes, ReadTable(p, 0))
       ELSE IF suffix \in {T_xls, T_xlsx}
       THEN IF p.content = "corrupt" THEN dataframes
            ELSE Append(dataframes, ReadTable(p, 0))
       ELSE dataframes

-----------------------------------------------------------------------------
(* Each specification below runs one part of the repository; the variables *)
(* of the other parts rest at these values.                                *)

NoAggregate ==
    [zip_col |-> NoColumn, dma_col |-> NoColumn, expanded |-> EmptyFrame,
     numeric_cols |-> <<>>, normalized |-> EmptyFrame, group_keys |-> {},
     status |-> "none", out |-> EmptyFrame]

ExpandIdle ==
    /\ ex_field = N_zip
    /\ ex_df = EmptyFrame
    /\ ex_out = EmptyFrame
    /\ ex_pc = "idle"

AggIdle ==
    /\ ag_df = EmptyFrame
    /\ ag = NoAggregate
    /\ ag_pc = "idle"

NoMetrics == [status |-> "none", keys |-> <<>>, out |-> EmptyFrame]

MetricsIdle ==
    /\ am_dfs = <<>>
    /\ am = NoMetrics
    /\ am_pc = "idle"

MapZipIdle ==
    /\ gm_df = EmptyFrame
    /\ gm_zip_col = N_ZIP
    /\ gm_mapping = EmptyFrame
    /\ gm_out = EmptyFrame
    /\ gm_pc = "idle"

PipelineIdle ==
    /\ rp_input = EmptyFrame
    /\ rp_df = EmptyFrame
    /\ rp_mapping = EmptyFrame
    /\ rp_pc = "idle"

HeatIdle ==
    /\ hf_raw_latlon = EmptyFrame
    /\ hf_zip_latlon = EmptyFrame
    /\ hf_aggregated = EmptyFrame
    /\ hf_features = <<>>
    /\ hf_pc = "idle"

FlowFeaturesIdle ==
    /\ mf_geocode = <<>>
    /\ mf_master = EmptyFrame
    /\ mf_features = <<>>
    /\ mf_status = "ok"
    /\ mf_pc = "idle"

MainIdle ==
    /\ mn_script = "none"
    /\ mn_env = [set |-> FALSE, value |-> <<>>]
    /\ mn_sources = <<>>
    /\ mn_i = 0
    /\ mn_parts = 0
    /\ mn_effects = <<>>
    /\ mn_error = "none"
    /\ mn_pc = "idle"

CallIdle ==
    /\ fn = "none"
    /\ fn_args = <<>>
    /\ fn_out = <<>>
    /\ fn_pc = "idle"

ClientIdle ==
    /\ cl_datasets = <<>>
    /\ cl_latlon = EmptyFrame
    /\ cl_i = 0
    /\ cl_agg = EmptyFrame
    /\ cl_parts = <<>>
    /\ cl_flows = <<>>
    /\ cl_stages = <<>>
    /\ cl_files = <<>>
    /\ cl_error = "none"
    /\ cl_pc = "idle"

LoadIdle ==
    /\ ld_fn = "none"
    /\ ld_files = <<>>
    /\ ld_i = 0
    /\ ld_datasets = <<>>
    /\ ld_frames = <<>>
    /\ ld_pc = "idle"

-----------------------------------------------------------------------------
(* Specification of aggregate_by_geo alone.  Three families of tables are  *)
(* drawn: every layout of at most MaxCols columns over AggNamePool with    *)
(* one fixed row; the layout zip, dma, spend with at most MaxRows rows     *)
(* over text keys; and the same layout with numeric DMA codes.             *)

AggNamePool == {N_zip, N_zipcode, N_exclude_zip, N_Exclude_DMA, N_dma,
                N_DMA_Name, N_spend, N_visits}

\* the cell a drawn one-row table holds under a column name
SampleCell(name) ==
    CASE name = N_zip -> StrV(Z10001)
      [] name = N_zipcode -> StrV(Z10002)
      [] name = N_exclude_zip -> StrV(Z99999)
      [] name = N_Exclude_DMA -> StrV(D_LA)
      [] name = N_dma -> StrV(D_NY)
      [] name = N_DMA_Name -> StrV(D_NY)
      [] name = N_spend -> IntV(100)
      [] OTHER -> IntV(7)

AggLayouts ==
    {cols \in UNION {[1..m -> AggNamePool] : m \in 1..MaxCols} :
        \A i, j \in 1..Len(cols) : i # j => cols[i] # cols[j]}

LayoutTables ==
    {[cols |-> cols, rows |-> <<[c \in 1..Len(cols) |-> SampleCell(cols[c])]>>] :
        cols \in AggLayouts}

TextKeyRows ==
    {<<StrV(z), d, IntV(v)>> :
        z \in {Z10001, Z00501, Z10001_10002},
        d \in {StrV(D_NY), StrV(D_LA), NaN},
        v \in {100, 150, 300}}

NumericKeyRows ==
    {<<StrV(z), IntV(d), IntV(v)>> :
        z \in {Z10001, Z00501}, d \in {501, 602}, v \in {100, 150}}

RowTables ==
    {[cols |-> <<N_ZIP, N_DMA, N_spend>>, rows |-> rs] :
        rs \in SeqsUpTo(TextKeyRows, MaxRows) \cup SeqsUpTo(NumericKeyRows, MaxRows)}

AggInit ==
    /\ ag_df \in LayoutTables \cup RowTables
    /\ ag = NoAggregate
    /\ ag_pc = "call"

Aggregate ==
    /\ ag_pc = "call"
    /\ ag' = AggregateByGeo(ag_df)
    /\ ag_pc' = "done"
    /\ UNCHANGED <<ag_df, exVars, amVars, gmVars, rpVars,
                 hfVars, mfVars, mnVars, ldVars, fnVars, clVars>>

\* aggregate_metrics is given one drawn table, or a drawn table followed by
\* one of a few fixed ones
MetricsLayouts ==
    {<<N_zip, N_spend>>, <<N_zipcode, N_spend>>, <<N_ZIP, N_spend>>,
     <<N_zip, N_dma, N_spend>>, <<N_region, N_spend>>}

MetricsCells(name) ==
    CASE name \in {N_zip, N_zipcode, N_ZIP} -> {StrV(Z10001), StrV(Z00501), NaN}
      [] name = N_dma -> {StrV(D_NY), NaN}
      [] name = N_region -> {StrV(D_LA)}
      [] OTHER -> {IntV(100), IntV(150)}

MetricsRows(cols) ==
    {row \in [1..Len(cols) -> UNION {MetricsCells(cols[c]) : c \in 1..Len(cols)}] :
        \A c \in 1..Len(cols) : row[c] \in MetricsCells(cols[c])}

MetricsTables ==
    UNION {{[cols |-> cols, rows |-> rs] : rs \in SeqsUpTo(MetricsRows(cols), MaxRows)} :
              cols \in MetricsLayouts}

MetricsLaterTables ==
    {[cols |-> <<N_zip, N_spend>>,
      rows |-> <<<<StrV(Z10001), IntV(300)>>, <<StrV(Z10001), IntV(50)>>>>],
     [cols |-> <<N_zip, N_dma, N_spend>>,
      rows |-> <<<<StrV(Z10001), StrV(D_NY), IntV(300)>>,
                 <<StrV(Z00501), NaN, IntV(50)>>>>],
     [cols |-> <<N_zipcode, N_spend>>, rows |-> <<<<StrV(Z10001), IntV(300)>>>>]}

MetricsInit ==
    /\ am_dfs \in {<<t>> : t \in MetricsTables}
                  \cup {<<t, u>> : t \in MetricsTables, u \in MetricsLaterTables}
    /\ am = NoMetrics
    /\ am_pc = "call"

AggregateMetricsCall ==
    /\ am_pc = "call"
    /\ am' = AggregateMetrics(am_dfs)
    /\ am_pc' = "done"
    /\ UNCHANGED <<am_dfs, exVars, agVars, gmVars, rpVars,
                 hfVars, mfVars, mnVars, ldVars, fnVars, clVars>>

-----------------------------------------------------------------------------
(* Specification of expand_zip_list alone: the geography field ranges over *)
(* every text of at most MaxLen characters over ExpandAlphabet.            *)

ExpandAlphabet == {"1", "2", ",", ";", " "}

\* the first row's geography field is any text; the rows after it are drawn
\* from a few fixed ones, so that the order of rows across the table shows
ExpandFirstRows ==
    {<<StrV(z), IntV(100)>> : z \in TextsUpTo(ExpandAlphabet, MaxLen)}
        \cup {<<IntV(10001), IntV(150)>>, <<NaN, IntV(150)>>}

ExpandLaterRows ==
    {<<StrV(<<"1", ",", " ", "2">>), IntV(150)>>,
     <<StrV(<<";">>), IntV(200)>>,
     <<StrV(<<"2">>), IntV(300)>>}

ExpandInit ==
    /\ ex_field \in {N_zip, N_region}
    /\ ex_df \in {[cols |-> <<N_zip, N_spend>>, rows |-> rs] :
                      rs \in {<<>>} \cup
                            {<<f>> \o l : f \in ExpandFirstRows,
                                          l \in SeqsUpTo(ExpandLaterRows, MaxRows - 1)}}
    /\ ex_out = EmptyFrame
    /\ ex_pc = "call"

Expand ==
    /\ ex_pc = "call"
    /\ ex_out' = ExpandZipList(ex_field, ex_df)
    /\ ex_pc' = "done"
    /\ UNCHANGED <<ex_field, ex_df, agVars, amVars, gmVars, rpVars,
                 hfVars, mfVars, mnVars, ldVars, fnVars, clVars>>

-----------------------------------------------------------------------------
(* C3.  expand_zip_list: an input row whose geography field splits on      *)
(* commas, semicolons or whitespace runs into k non-empty tokens gives     *)
(* exactly k output rows, one per token in token order, each carrying the  *)
(* token as its geography value and every other field of the original row; *)
(* empty tokens and rows without a non-empty token give no row; a table    *)
(* lacking the field is returned unchanged.                                *)

ClaimDelims == {",", ";", " ", "\t", "\n", "\r"}

\* the tokens of s: its maximal runs of non-delimiter characters, as
\* <<first, last>> positions
TokenRuns(s) ==
    {<<a, b>> \in (1..Len(s)) \X (1..Len(s)) :
        /\ a <= b
        /\ \A i \in a..b : s[i] \notin ClaimDelims
        /\ (a = 1 \/ s[a-1] \in ClaimDelims)
        /\ (b = Len(s) \/ s[b+1] \in ClaimDelims)}

\* the m-th token of s in token order
NthToken(s, m) ==
    LET run == CHOOSE r \in TokenRuns(s) :
                   Cardinality({q \in TokenRuns(s) : q[1] < r[1]}) = m - 1
    IN SubSeq(s, run[1], run[2])

TokenCount(row) == Cardinality(TokenRuns(ToStr(row[1])))

\* the number of output rows owed to the input rows before row i
RowOffset(i) == SumSeq([j \in 1..(i-1) |-> TokenCount(ex_df.rows[j])])

ExpandIsTokenwise ==
    (ex_pc = "done") =>
        IF ex_field \notin Range(ex_df.cols)
        THEN ex_out = ex_df
        ELSE /\ Len(ex_out.rows) = RowOffset(Len(ex_df.rows) + 1)
             /\ \A i \in 1..Len(ex_df.rows) :
                    \A m \in 1..TokenCount(ex_df.rows[i]) :
                        LET o == ex_out.rows[RowOffset(i) + m]
                        IN /\ o[1] = StrV(NthToken(ToStr(ex_df.rows[i][1]), m))
                           /\ o[2] = ex_df.rows[i][2]

\* a two-row table whose first field holds two tokens and an empty one has
\* been expanded
ExpandIsTokenwiseWitness ==
    /\ ex_pc = "done"
    /\ ex_field = N_zip
    /\ Len(ex_df.rows) = 2
    /\ ex_df.rows[1][1] = StrV(<<"1", ";", "2">>)
    /\ ex_df.rows[2][1] = StrV(<<";">>)
    /\ Len(ex_out.rows) = 2

-----------------------------------------------------------------------------
(* Specification of the geography step: map_zip_to_dma called on a drawn   *)
(* table and mapping, and run_pipeline's spend table taken from ingestion  *)
(* to the ZIP-to-DMA join.                                                 *)

S_NY == <<"N","Y">>
S_CA == <<"C","A">>
Z501 == <<"5","0","1">>
C_tv == <<"t","v">>
C_web == <<"w","e","b">>
N_channel == <<"c","h","a","n","n","e","l">>

\* mapping rows as load_zip_dma_mapping reads them: text cells, the ZIP as
\* the file spells it
MappingRows ==
    {<<StrV(z), StrV(D_NY), StrV(S_NY)>> : z \in {Z10001, Z00501, Z501}}
        \cup {<<StrV(z), StrV(D_LA), StrV(S_CA)>> : z \in {Z10001, Z00501, Z501}}

Mappings ==
    {[cols |-> <<N_ZIP, N_DMA, N_STATE>>, rows |-> rs] :
        rs \in SeqsUpTo(MappingRows, MaxRows)}

RecordRows ==
    {<<z, IntV(v)>> : z \in {StrV(Z10001), IntV(501), StrV(Z99999)}, v \in {100, 150}}

MapZipInit ==
    /\ gm_zip_col \in {N_ZIP, N_zip}
    /\ gm_df \in {[cols |-> <<gm_zip_col, N_spend>>, rows |-> rs] :
                     rs \in SeqsUpTo(RecordRows, MaxRows)}
    /\ gm_mapping \in Mappings
    /\ gm_out = EmptyFrame
    /\ gm_pc = "call"

MapZipCall ==
    /\ gm_pc = "call"
    /\ gm_out' = MapZipToDma(gm_df, gm_zip_col, gm_mapping)
    /\ gm_pc' = "done"
    /\ UNCHANGED <<gm_df, gm_zip_col, gm_mapping, exVars, agVars, amVars, rpVars,
                 hfVars, mfVars, mnVars, ldVars, fnVars, clVars>>

\* the spend table as read_csv returns it: a ZIP column that is numeric
\* throughout or text throughout, a text column and a numeric metric
SpendRowsNumericZip ==
    {<<IntV(z), StrV(c), v>> :
        z \in {501, 10001}, c \in {C_tv, C_web}, v \in {IntV(100), IntV(150), NaN}}

SpendRowsTextZip ==
    {<<StrV(z), StrV(c), v>> :
        z \in {Z10001, Z00501}, c \in {C_tv, C_web}, v \in {IntV(100), IntV(150), NaN}}

SpendTables ==
    {[cols |-> <<N_ZIP, N_channel, N_spend>>, rows |-> rs] :
        rs \in (SeqsUpTo(SpendRowsNumericZip, MaxRows)
                    \cup SeqsUpTo(SpendRowsTextZip, MaxRows)) \ {<<>>}}

PipelineMappings ==
    {[cols |-> <<N_ZIP, N_DMA, N_STATE>>,
      rows |-> <<<<StrV(Z10001), StrV(D_NY), StrV(S_NY)>>,
                 <<StrV(Z00501), StrV(D_LA), StrV(S_CA)>>>>],
     [cols |-> <<N_ZIP, N_DMA, N_STATE>>,
      rows |-> <<<<StrV(Z10001), StrV(D_NY), StrV(S_NY)>>>>]}

PipelineInit ==
    /\ rp_input \in SpendTables
    /\ rp_df = rp_input
    /\ rp_mapping \in PipelineMappings
    /\ rp_pc = "loaded"

\* lines 46-47
RpFillMissing ==
    /\ rp_pc = "loaded"
    /\ rp_df' = FillMissingValues(rp_df)
    /\ rp_pc' = "filled"
    /\ UNCHANGED <<rp_input, rp_mapping, exVars, agVars, amVars, gmVars,
                 hfVars, mfVars, mnVars, ldVars, fnVars, clVars>>

\* lines 50-52
RpNormalize ==
    /\ rp_pc = "filled"
    /\ rp_df' = PipelineNormalizeNumeric(rp_df, PipelineNumericCols(rp_df))
    /\ rp_pc' = "normalized"
    /\ UNCHANGED <<rp_input, rp_mapping, exVars, agVars, amVars, gmVars,
                 hfVars, mfVars, mnVars, ldVars, fnVars, clVars>>

\* lines 54-56
RpEncode ==
    /\ rp_pc = "normalized"
    /\ rp_df' = EncodeCategoricalOnehot(rp_df, PipelineCatCols(rp_df))
    /\ rp_pc' = "encoded"
    /\ UNCHANGED <<rp_input, rp_mapping, exVars, agVars, amVars, gmVars,
                 hfVars, mfVars, mnVars, ldVars, fnVars, clVars>>

\* lines 62-64 (the table has no date column, so lines 59-60 are skipped)
RpMapZip ==
    /\ rp_pc = "encoded"
    /\ rp_df' = MapZipToDma(rp_df, N_ZIP, rp_mapping)
    /\ rp_pc' = "mapped"
    /\ UNCHANGED <<rp_input, rp_mapping, exVars, agVars, amVars, gmVars,
                 hfVars, mfVars, mnVars, ldVars, fnVars, clVars>>

GeoInit ==
    /\ ExpandIdle /\ AggIdle /\ MetricsIdle
    /\ HeatIdle /\ FlowFeaturesIdle /\ ClientIdle /\ MainIdle /\ LoadIdle /\ CallIdle
    /\ \/ MapZipInit /\ PipelineIdle
       \/ MapZipIdle /\ PipelineInit

GeoNext == MapZipCall \/ RpFillMissing \/ RpNormalize \/ RpEncode \/ RpMapZip

-----------------------------------------------------------------------------
(* Claims about aggregate_by_geo (specification SpecAgg).                  *)

AggReturned == ag_pc = "done" /\ ag.status = "ok" /\ ag.zip_col # NoColumn

\* the positions of the key columns and of the summed columns in the
\* expanded table, and of the summed columns in the output
AggKeyIdx ==
    [k \in 1..(IF ag.dma_col # NoColumn THEN 2 ELSE 1) |->
        FieldIdx(ag.expanded.cols, IF k = 1 THEN ag.zip_col ELSE ag.dma_col)]

AggOutCol(name) == FieldIdx(ag.out.cols, name)

\* the expanded input rows that carry the key of output row g
AggGroupRows(g) ==
    {r \in 1..Len(ag.expanded.rows) :
        \A k \in 1..Len(AggKeyIdx) : ag.expanded.rows[r][AggKeyIdx[k]] = ag.out.rows[g][k]}

RECURSIVE SumFn(_)
\* the sum of the values of a function of finite domain
SumFn(f) ==
    IF DOMAIN f = {} THEN 0
    ELSE LET x == CHOOSE y \in DOMAIN f : TRUE
         IN f[x] + SumFn([y \in DOMAIN f \ {x} |-> f[y]])

\* the raw (integer) value of a summed column in an expanded row
RawVal(r, name) == ag.expanded.rows[r][FieldIdx(ag.expanded.cols, name)].n

RawMin(name) ==
    CHOOSE m \in {RawVal(r, name) : r \in 1..Len(ag.expanded.rows)} :
        \A r \in 1..Len(ag.expanded.rows) : m <= RawVal(r, name)

RawMax(name) ==
    CHOOSE m \in {RawVal(r, name) : r \in 1..Len(ag.expanded.rows)} :
        \A r \in 1..Len(ag.expanded.rows) : m >= RawVal(r, name)

(* C1 as stated: aggregation sums raw values - for every group of input    *)
(* rows sharing a geography key, each numeric column of the output row     *)
(* equals the sum of the column's original input values over the group.    *)
AggSumsRawValues ==
    AggReturned =>
        \A g \in 1..Len(ag.out.rows) :
            \A c \in 1..Len(ag.numeric_cols) :
                LET name == ag.numeric_cols[c]
                    o == ag.out.rows[g][AggOutCol(name)]
                IN o.n = o.d * SumFn([r \in AggGroupRows(g) |-> RawVal(r, name)])

\* aggregate_by_geo: each numeric column of the output row of a group equals
\* the sum over the group of (v - min) / (max - min), min and max taken over
\* the expanded table, and 0 when the column is constant
AggSumsNormalizedValues ==
    AggReturned =>
        \A g \in 1..Len(ag.out.rows) :
            \A c \in 1..Len(ag.numeric_cols) :
                LET name == ag.numeric_cols[c]
                    o == ag.out.rows[g][AggOutCol(name)]
                    lo == RawMin(name)
                    hi == RawMax(name)
                    raw == SumFn([r \in AggGroupRows(g) |-> RawVal(r, name)])
                IN /\ AggGroupRows(g) # {}
                   /\ IF hi = lo THEN o.n = 0
                      ELSE o.n * (hi - lo) =
                               o.d * (raw - Cardinality(AggGroupRows(g)) * lo)

\* two rows with ZIP 10001 and spend 100 and 150 were aggregated into one
AggregatorsSumAsImplementedWitness ==
    /\ AggReturned
    /\ Len(ag_df.rows) = 2
    /\ ag_df.rows[1][1] = StrV(Z10001) /\ ag_df.rows[2][1] = StrV(Z10001)
    /\ ag_df.rows[1][2] = ag_df.rows[2][2]
    /\ ag_df.rows[1][3] = IntV(100) /\ ag_df.rows[2][3] = IntV(150)
    /\ Len(ag.out.rows) = 1
    /\ NumEq(ag.out.rows[1][3], IntV(1))

\* aggregate_metrics: the key columns table t is grouped by in its own pass
MetricsOwnKeys(t) ==
    {name \in Range(t.cols) : Lower(name) \in {N_zip, N_zipcode, N_dma}}

\* the rows of t that keep at least one key value
MetricsKeyed(t) ==
    {r \in 1..Len(t.rows) :
        \E name \in MetricsOwnKeys(t) : ~IsNA(t.rows[r][FieldIdx(t.cols, name)])}

\* row r of t is grouped under value v of key column name: it holds v, or
\* the column is empty throughout t, which the first pass sums to 0
MetricsGroupsAs(t, r, name, v) ==
    /\ name \in Range(t.cols)
    /\ IF \A q \in MetricsKeyed(t) : IsNA(t.rows[q][FieldIdx(t.cols, name)])
       THEN IsNum(v) /\ v.n = 0
       ELSE t.rows[r][FieldIdx(t.cols, name)] = v

\* row r of t reaches a group of t's own pass: it misses no key value,
\* columns that are empty throughout t aside
MetricsGrouped(t, r) ==
    \A name \in MetricsOwnKeys(t) :
        \/ ~IsNA(t.rows[r][FieldIdx(t.cols, name)])
        \/ \A q \in MetricsKeyed(t) : IsNA(t.rows[q][FieldIdx(t.cols, name)])

\* the rows of table t grouped under the key of output row g
MetricsGroupRows(t, g) ==
    {r \in MetricsKeyed(t) :
        /\ MetricsGrouped(t, r)
        /\ \A k \in 1..Len(am.keys) :
               MetricsGroupsAs(t, r, am.keys[k], am.out.rows[g][k])}

MetricsRaw(t, r, name) ==
    IF FieldIdx(t.cols, name) = 0 THEN 0 ELSE t.rows[r][FieldIdx(t.cols, name)].n

MetricsSumsRawValues ==
    (am_pc = "done" /\ am.status = "ok") =>
        \A g \in 1..Len(am.out.rows) :
            \A c \in (Len(am.keys) + 1)..Len(am.out.cols) :
                LET o == am.out.rows[g][c]
                    raw == SumFn([i \in 1..Len(am_dfs) |->
                               SumFn([r \in MetricsGroupRows(am_dfs[i], g) |->
                                         MetricsRaw(am_dfs[i], r, am.out.cols[c])])])
                IN o.n = o.d * raw

(* C1 as amended: aggregate_by_geo sums min-max normalised values, and     *)
(* aggregate_metrics sums raw values - each metric column of an output row *)
(* equals the sum of the column's original values over the input rows      *)
(* grouped under that row's key.                                           *)
AggregatorsSumAsImplemented == AggSumsNormalizedValues /\ MetricsSumsRawValues

(* C2: the aggregated table has exactly one row per (ZIP, DMA) pair of the *)
(* expanded input rows, rows with a missing DMA included, and no two       *)
(* output rows share a pair.                                               *)
AggOneRowPerPair ==
    (ag_pc = "done" /\ ag.zip_col # NoColumn /\ ag.status = "ok") =>
        /\ \A r \in 1..Len(ag.expanded.rows) :
              \E g \in 1..Len(ag.out.rows) : r \in AggGroupRows(g)
        /\ \A g, h \in 1..Len(ag.out.rows) :
              (\A k \in 1..Len(AggKeyIdx) : ag.out.rows[g][k] = ag.out.rows[h][k])
                  => g = h

\* first position of cols whose lower-cased name satisfies P, 0 if none
FirstPos(cols, P(_)) ==
    IF \E i \in 1..Len(cols) : P(Lower(cols[i]))
    THEN CHOOSE i \in 1..Len(cols) :
             P(Lower(cols[i])) /\ \A j \in 1..(i-1) : ~P(Lower(cols[j]))
    ELSE 0

HasZip(name) == Contains(name, <<"z","i","p">>)
HasDma(name) == Contains(name, <<"d","m","a">>)
IsExcluded(name) == StartsWith(name, <<"e","x","c","l","u","d","e">>)

RoleIs(col, cols, pos) ==
    IF pos = 0 THEN col = NoColumn ELSE col = Lower(cols[pos])

(* C4 as stated: the ZIP role is the first column whose lower-cased name   *)
(* contains "zip", the DMA role the first whose lower-cased name contains  *)
(* "dma"; none if no column matches.                                       *)
AggRolesAreFirstMatch ==
    (ag_pc = "done") =>
        /\ RoleIs(ag.zip_col, ag_df.cols, FirstPos(ag_df.cols, HasZip))
        /\ RoleIs(ag.dma_col, ag_df.cols, FirstPos(ag_df.cols, HasDma))

(* C4 as amended: the ZIP role is the first column whose lower-cased name  *)
(* contains "zip"; the DMA role is the first column whose lower-cased name *)
(* contains "dma" and does not start with "exclude"; none if no column     *)
(* qualifies; later qualifying columns do not matter.                      *)
AggRolesAreFirstQualifying ==
    (ag_pc = "done") =>
        /\ RoleIs(ag.zip_col, ag_df.cols, FirstPos(ag_df.cols, HasZip))
        /\ RoleIs(ag.dma_col, ag_df.cols,
                  FirstPos(ag_df.cols, LAMBDA c : HasDma(c) /\ ~IsExcluded(c)))

\* a table with two zip-like and two dma-like columns, the first dma-like
\* one excluded, went through detection
AggRolesAreFirstQualifyingWitness ==
    /\ ag_pc = "done"
    /\ ag_df.cols = <<N_zipcode, N_Exclude_DMA, N_DMA_Name>>
    /\ ag.zip_col = N_zipcode
    /\ ag.dma_col = Lower(N_DMA_Name)

(* C5: neither the detected ZIP column nor the detected DMA column has a   *)
(* name that starts with "exclude".                                        *)
AggRolesNeverExcluded ==
    (ag_pc = "done") => ~IsExcluded(ag.zip_col) /\ ~IsExcluded(ag.dma_col)

-----------------------------------------------------------------------------
(* Claims about the geography step (specification SpecGeo).                *)

\* the padded ZIP of an input cell
PaddedZip(v) == ZFill(ToStr(v), 5)

(* C6: the geography key is an opaque string - no step but the zero-       *)
(* padding of ZIP changes its values, numeric normalisation is never       *)
(* applied to it, so the keys the join sees are the zero-padded input      *)
(* keys, also when the ZIP column was loaded with a numeric dtype.         *)
JoinSeesPaddedInputKeys ==
    (rp_pc = "mapped") =>
        {rp_df.rows[r][FieldIdx(rp_df.cols, N_ZIP)] : r \in 1..Len(rp_df.rows)}
            = {StrV(PaddedZip(rp_input.rows[r][FieldIdx(rp_input.cols, N_ZIP)])) :
                   r \in 1..Len(rp_input.rows)}

\* the positions in the mapping whose ZIP equals the padded ZIP of row i
GmMatches(i) ==
    {m \in 1..Len(gm_mapping.rows) :
        gm_mapping.rows[m][1] = StrV(PaddedZip(gm_df.rows[i][1]))}

GmCopies(i) == IF GmMatches(i) = {} THEN 1 ELSE Cardinality(GmMatches(i))

\* the number of output rows owed to the input rows before row i
GmOffset(i) == SumSeq([j \in 1..(i-1) |-> GmCopies(j)])

GmCell(o, name) == o[FieldIdx(gm_out.cols, name)]

(* C7: the geo-join is a left join that keeps unmatched keys - every input *)
(* row gives at least one output row with its fields unchanged apart from  *)
(* ZIP zero-padding; a row whose padded ZIP is absent from the mapping is  *)
(* kept with missing DMA and STATE; a row whose padded ZIP occurs once in  *)
(* the mapping gives exactly one output row with that entry's DMA and      *)
(* STATE.                                                                  *)
MapZipIsLeftJoin ==
    (gm_pc = "done") =>
        /\ Len(gm_out.rows) = GmOffset(Len(gm_df.rows) + 1)
        /\ \A i \in 1..Len(gm_df.rows) :
              /\ GmCopies(i) >= 1
              /\ \A k \in 1..GmCopies(i) :
                    LET o == gm_out.rows[GmOffset(i) + k]
                    IN /\ GmCell(o, gm_zip_col) = StrV(PaddedZip(gm_df.rows[i][1]))
                       /\ GmCell(o, N_spend) = gm_df.rows[i][2]
                       /\ GmMatches(i) = {} =>
                              IsNA(GmCell(o, N_DMA)) /\ IsNA(GmCell(o, N_STATE))
                       /\ Cardinality(GmMatches(i)) = 1 =>
                              \A m \in GmMatches(i) :
                                  /\ GmCell(o, N_DMA) = gm_mapping.rows[m][2]
                                  /\ GmCell(o, N_STATE) = gm_mapping.rows[m][3]

\* a numeric ZIP 501 found once in the mapping after padding, next to a ZIP
\* the mapping lacks, has been joined
MapZipIsLeftJoinWitness ==
    /\ gm_pc = "done"
    /\ Len(gm_df.rows) = 2
    /\ gm_df.rows[1][1] = IntV(501)
    /\ gm_df.rows[2][1] = StrV(Z99999)
    /\ Cardinality(GmMatches(1)) = 1
    /\ Len(gm_out.rows) = 2
    /\ GmCell(gm_out.rows[1], N_DMA) = StrV(D_LA)
    /\ IsNA(GmCell(gm_out.rows[2], N_DMA))

-----------------------------------------------------------------------------
(* Specification of the point features.  client_spend_pipeline.main reads  *)
(* a drawn reference table, prepares it and calls create_heatmap_features  *)
(* on a drawn aggregated table; mapbox_flow.main adds coordinates to a     *)
(* drawn master table and builds its features.                             *)

RawLatLonLayouts == {<<N_zip, N_latitude, N_longitude>>, <<N_ZIP, N_LAT, N_LNG>>}

\* rows of a reference CSV: numeric and text postal codes, two of them the
\* same code once padded
RawLatLonRows ==
    {<<IntV(10001), IntV(40), IntV(-74)>>,
     <<StrV(Z00501), IntV(41), IntV(-73)>>,
     <<IntV(501), IntV(42), IntV(-72)>>,
     <<StrV(Z10001), IntV(43), IntV(-75)>>}

\* the ZIPs of an aggregated table, in the order groupby leaves them
HeatZipPool == <<Z00501, Z10001, Z501, Z99999>>

AggregatedLayouts ==
    {<<N_ZIP, N_DMA, N_spend>>, <<N_ZIP, N_DMA, N_visits>>, <<N_ZIP, N_spend>>}

AggregatedRow(layout, i) ==
    [c \in 1..Len(layout) |->
        IF layout[c] = N_ZIP THEN StrV(HeatZipPool[i])
        ELSE IF layout[c] = N_DMA THEN StrV(D_NY)
        ELSE FloatV(i, 2)]

AggregatedTables ==
    {LET idx == SelectIdx(Len(HeatZipPool), LAMBDA i : i \in S)
     IN [cols |-> layout,
         rows |-> [k \in 1..Len(idx) |-> AggregatedRow(layout, idx[k])]] :
        layout \in AggregatedLayouts,
        S \in {T \in SUBSET (1..Len(HeatZipPool)) : Cardinality(T) <= MaxRows}}

HeatInit ==
    /\ hf_raw_latlon \in {[cols |-> layout, rows |-> rs] :
                             layout \in RawLatLonLayouts,
                             rs \in SeqsUpTo(RawLatLonRows, MaxRows)}
    /\ hf_zip_latlon = EmptyFrame
    /\ hf_aggregated \in AggregatedTables
    /\ hf_features = <<>>
    /\ hf_pc = "read_csv"

\* client_spend_pipeline.main, lines 313-318
HeatPrepareReference ==
    /\ hf_pc = "read_csv"
    /\ hf_zip_latlon' = PrepareZipLatLon(hf_raw_latlon)
    /\ hf_pc' = "call"
    /\ UNCHANGED <<hf_raw_latlon, hf_aggregated, hf_features>>
    /\ UNCHANGED <<exVars, agVars, amVars, gmVars, rpVars, mfVars, mnVars, ldVars, fnVars, clVars>>

\* client_spend_pipeline.main, line 333
HeatCreateFeatures ==
    /\ hf_pc = "call"
    /\ hf_features' = CreateHeatmapFeatures(hf_aggregated, hf_zip_latlon)
    /\ hf_aggregated' = hf_aggregated
    /\ hf_pc' = "done"
    /\ UNCHANGED <<hf_raw_latlon, hf_zip_latlon>>
    /\ UNCHANGED <<exVars, agVars, amVars, gmVars, rpVars, mfVars, mnVars, ldVars, fnVars, clVars>>

GeocodePool == {Z10001, Z501, Z99999}

GeocodeAnswers ==
    {<<FloatV(40, 1), FloatV(-74, 1)>>, <<NaN, NaN>>, <<FloatV(40, 1), NaN>>}

MasterLayouts == {<<N_ZIP, N_spend>>, <<N_ZIP, N_DMA, N_spend>>, <<N_DMA, N_spend>>}

MasterZips == {StrV(Z10001), IntV(501), StrV(Z99999)}

MasterRow(layout, z) ==
    [c \in 1..Len(layout) |->
        IF layout[c] = N_ZIP THEN z
        ELSE IF layout[c] = N_DMA THEN StrV(D_NY)
        ELSE IntV(100)]

FlowFeaturesInit ==
    /\ mf_geocode \in [GeocodePool -> GeocodeAnswers]
    /\ mf_master \in {[cols |-> layout,
                       rows |-> [r \in 1..Len(zs) |-> MasterRow(layout, zs[r])]] :
                         layout \in MasterLayouts,
                         zs \in SeqsUpTo(MasterZips, MaxRows)}
    /\ mf_features = <<>>
    /\ mf_status = "ok"
    /\ mf_pc = "concat"

\* mapbox_flow.main, line 265
FlowAddCoordinates ==
    /\ mf_pc = "concat"
    /\ mf_master' = AddCoordinates(mf_master, mf_geocode)
    /\ mf_pc' = "features"
    /\ UNCHANGED <<mf_geocode, mf_features, mf_status>>
    /\ UNCHANGED <<exVars, agVars, amVars, gmVars, rpVars, hfVars, mnVars, ldVars, fnVars, clVars>>

\* mapbox_flow.main, lines 267-279
FlowBuildFeatures ==
    /\ mf_pc = "features"
    /\ mf_features' = FlowPointFeatures(mf_master).features
    /\ mf_status' = FlowPointFeatures(mf_master).status
    /\ mf_pc' = "done"
    /\ UNCHANGED <<mf_geocode, mf_master>>
    /\ UNCHANGED <<exVars, agVars, amVars, gmVars, rpVars, hfVars, mnVars, ldVars, fnVars, clVars>>

HeatBothInit ==
    /\ ExpandIdle /\ AggIdle /\ MetricsIdle /\ MapZipIdle /\ PipelineIdle
    /\ MainIdle /\ LoadIdle /\ CallIdle /\ ClientIdle
    /\ \/ HeatInit /\ FlowFeaturesIdle
       \/ HeatIdle /\ FlowFeaturesInit

HeatNext ==
    HeatPrepareReference \/ HeatCreateFeatures \/ FlowAddCoordinates \/ FlowBuildFeatures

-----------------------------------------------------------------------------
(* Claims about the point features (specification SpecHeat).               *)

HeatRowPadded(r) ==
    ZFill(ToStr(hf_aggregated.rows[r][FieldIdx(hf_aggregated.cols, N_ZIP)]), 5)

HeatReferenceRows(r) ==
    {m \in 1..Len(hf_zip_latlon.rows) :
        hf_zip_latlon.rows[m][FieldIdx(hf_zip_latlon.cols, N_ZIP)]
            = StrV(HeatRowPadded(r))}

HeatMatchedRows ==
    SelectIdx(Len(hf_aggregated.rows), LAMBDA r : HeatReferenceRows(r) # {})

HeatFeaturesFollowReference ==
    hf_pc = "done" =>
        /\ Len(hf_features) = Len(HeatMatchedRows)
        /\ \A k \in 1..Len(HeatMatchedRows) :
              LET f == hf_features[k]
                  r == HeatMatchedRows[k]
              IN /\ f.geometry.type = "Point"
                 /\ \A c \in 1..Len(hf_aggregated.cols) :
                       /\ f.properties.cols[c] = hf_aggregated.cols[c]
                       /\ f.properties.vals[c] = hf_aggregated.rows[r][c]
                 /\ \E m \in HeatReferenceRows(r) :
                       LET lon == hf_zip_latlon.rows[m][
                                      FieldIdx(hf_zip_latlon.cols, N_longitude)]
                           lat == hf_zip_latlon.rows[m][
                                      FieldIdx(hf_zip_latlon.cols, N_latitude)]
                       IN /\ NumEq(f.geometry.coordinates[1], lon)
                          /\ NumEq(f.geometry.coordinates[2], lat)

FlowLocatedRows ==
    SelectIdx(Len(mf_master.rows),
        LAMBDA r : /\ ~IsNA(mf_master.rows[r][FieldIdx(mf_master.cols, N_latitude)])
                   /\ ~IsNA(mf_master.rows[r][FieldIdx(mf_master.cols, N_longitude)]))

FlowFeaturesOnlyLocated ==
    (mf_pc = "done" /\ mf_status = "ok") =>
        /\ Len(mf_features) = Len(FlowLocatedRows)
        /\ \A k \in 1..Len(FlowLocatedRows) :
              LET f == mf_features[k]
                  row == mf_master.rows[FlowLocatedRows[k]]
              IN /\ f.geometry.type = "Point"
                 /\ f.properties.vals = row
                 /\ f.geometry.coordinates =
                        <<row[FieldIdx(mf_master.cols, N_longitude)],
                          row[FieldIdx(mf_master.cols, N_latitude)]>>

(* C8: create_heatmap_features returns exactly one Point feature for each   *)
(* aggregated row whose zero-padded ZIP is in the reference table, in row  *)
(* order and carrying the row and the reference coordinates, and none for  *)
(* any other row; the call leaves the aggregated table as it was, so the   *)
(* unmatched rows are still in it; mapbox_flow.main builds one feature for *)
(* each row of master with a latitude and a longitude, and none for a row  *)
(* missing either.                                                         *)
PointFeaturesOnlyForLocatedRows ==
    /\ [](HeatFeaturesFollowReference /\ FlowFeaturesOnlyLocated)
    /\ [][hf_pc = "call" => hf_aggregated' = hf_aggregated]_vars

PointFeaturesOnlyForLocatedRowsWitness ==
    /\ hf_pc = "done"
    /\ hf_features # <<>>
    /\ Len(hf_features) < Len(hf_aggregated.rows)
    /\ \E k \in 1..Len(hf_features) :
          hf_features[k].properties.vals[1] = StrV(Z501)

-----------------------------------------------------------------------------
(* Specification of the two Mapbox scripts as runs: each statement of      *)
(* client_spend_pipeline.main and mapbox_flow.main that touches the        *)
(* network, the file system or the data is a step that appends to          *)
(* mn_effects; a step that can fail ends the run with its exception.       *)

T_pk == <<"p","k">>

MainTokens == {EnvUnset, EnvSet(<<>>), EnvSet(T_pk)}

ArchiveCount == 2

MainInit ==
    /\ mn_script \in {"client_spend_pipeline", "mapbox_flow"}
    /\ mn_env \in MainTokens
    /\ mn_sources \in
          IF mn_script = "client_spend_pipeline"
          THEN [1..ArchiveCount -> {"url", "path"}]
          ELSE {[i \in 1..ArchiveCount |-> "url"]}
    /\ mn_i = 0
    /\ mn_parts = 0
    /\ mn_effects = <<>>
    /\ mn_error = "none"
    /\ mn_pc = IF mn_script = "client_spend_pipeline" THEN "parse_args" ELSE "getenv"

MainOthersUnchanged ==
    UNCHANGED <<exVars, agVars, amVars, gmVars, rpVars, hfVars, mfVars, ldVars, fnVars, clVars>>

\* an exception that is noted and does not end the run
RaiseAndGoOn(exc) ==
    /\ mn_error' = exc
    /\ mn_pc' = mn_pc

\* the statement at pc raises exc: the run ends there
Raise(exc) ==
    /\ mn_error' = exc
    /\ mn_pc' = "raised"

Goto(pc) ==
    /\ mn_error' = mn_error
    /\ mn_pc' = pc

Effect(e) == mn_effects' = Append(mn_effects, e)

IsClient == mn_script = "client_spend_pipeline"
IsFlow == mn_script = "mapbox_flow"

\* client main, lines 292-297: argparse exits on a bad command line
ClientParseArgs ==
    /\ IsClient /\ mn_pc = "parse_args"
    /\ \E ok \in BOOLEAN : IF ok THEN Goto("getenv") ELSE Raise("SystemExit")
    /\ UNCHANGED <<mn_script, mn_env, mn_sources, mn_i, mn_parts, mn_effects>>
    /\ MainOthersUnchanged

\* client main, lines 299-301
ClientTokenCheck ==
    /\ IsClient /\ mn_pc = "getenv"
    /\ IF TokenMissing(mn_env)
       THEN Raise("RuntimeError: MAPBOX_TOKEN") /\ mn_i' = mn_i
       ELSE Goto("download") /\ mn_i' = 1
    /\ UNCHANGED <<mn_script, mn_env, mn_sources, mn_parts, mn_effects>>
    /\ MainOthersUnchanged

\* client main, lines 303-304, download_file (lines 22-33): a URL is
\* fetched, a local path is returned as it is
ClientDownload ==
    /\ IsClient /\ mn_pc = "download"
    /\ IF mn_sources[mn_i] = "url"
       THEN /\ Effect("download")
            /\ \E ok \in BOOLEAN :
                  IF ~ok THEN Raise("HTTPError") /\ mn_i' = mn_i
                  ELSE IF mn_i < ArchiveCount
                  THEN Goto("download") /\ mn_i' = mn_i + 1
                  ELSE Goto("extract") /\ mn_i' = 1
       ELSE /\ mn_effects' = mn_effects
            /\ IF mn_i < ArchiveCount
               THEN Goto("download") /\ mn_i' = mn_i + 1
               ELSE Goto("extract") /\ mn_i' = 1
    /\ UNCHANGED <<mn_script, mn_env, mn_sources, mn_parts>>
    /\ MainOthersUnchanged

\* client main, lines 306-307, extract_zip (lines 36-45)
ClientExtract ==
    /\ IsClient /\ mn_pc = "extract"
    /\ Effect("extract")
    /\ \E ok \in BOOLEAN :
          IF ~ok THEN Raise("BadZipFile") /\ mn_i' = mn_i
          ELSE IF mn_i < ArchiveCount
          THEN Goto("extract") /\ mn_i' = mn_i + 1
          ELSE Goto("load") /\ mn_i' = mn_i
    /\ UNCHANGED <<mn_script, mn_env, mn_sources, mn_parts>>
    /\ MainOthersUnchanged

\* client main, line 308: load_spreadsheets never raises
ClientLoad ==
    /\ IsClient /\ mn_pc = "load"
    /\ Effect("load")
    /\ Goto("read_latlon")
    /\ UNCHANGED <<mn_script, mn_env, mn_sources, mn_i, mn_parts>>
    /\ MainOthersUnchanged

\* client main, lines 313-318
ClientReadLatLon ==
    /\ IsClient /\ mn_pc = "read_latlon"
    /\ Effect("load")
    /\ \E ok \in BOOLEAN : IF ok THEN Goto("aggregate") ELSE Raise("FileNotFoundError")
    /\ UNCHANGED <<mn_script, mn_env, mn_sources, mn_i, mn_parts>>
    /\ MainOthersUnchanged

\* client main, lines 320-325: aggregate_by_geo and build_flow_records on
\* every dataset; some, all or none of the datasets give a table
ClientAggregate ==
    /\ IsClient /\ mn_pc = "aggregate"
    /\ Effect("aggregate")
    /\ \E ok \in BOOLEAN, parts \in 0..ArchiveCount :
          IF ~ok THEN Raise("KeyError") /\ mn_parts' = mn_parts
          ELSE Goto("check_parts") /\ mn_parts' = parts
    /\ UNCHANGED <<mn_script, mn_env, mn_sources, mn_i>>
    /\ MainOthersUnchanged

\* client main, lines 327-328
ClientCheckParts ==
    /\ IsClient /\ mn_pc = "check_parts"
    /\ IF mn_parts = 0 THEN Raise("RuntimeError: no ZIP-level data")
       ELSE Goto("combine")
    /\ UNCHANGED <<mn_script, mn_env, mn_sources, mn_i, mn_parts, mn_effects>>
    /\ MainOthersUnchanged

\* client main, lines 330-333: concat, groupby(["ZIP", "DMA"]) (KeyError
\* when no part has a DMA column) and create_heatmap_features
ClientCombine ==
    /\ IsClient /\ mn_pc = "combine"
    /\ Effect("aggregate")
    /\ \E ok \in BOOLEAN : IF ok THEN Goto("write_heatmap") ELSE Raise("KeyError")
    /\ UNCHANGED <<mn_script, mn_env, mn_sources, mn_i, mn_parts>>
    /\ MainOthersUnchanged

\* client main, lines 334-343: zip_heatmap.json, flows.json, the HTML page
ClientWrite ==
    /\ IsClient /\ mn_pc \in {"write_heatmap", "write_flows", "write_html"}
    /\ Effect("write")
    /\ \E ok \in BOOLEAN :
          IF ~ok THEN Raise("OSError")
          ELSE Goto(CASE mn_pc = "write_heatmap" -> "write_flows"
                      [] mn_pc = "write_flows" -> "write_html"
                      [] OTHER -> "done")
    /\ UNCHANGED <<mn_script, mn_env, mn_sources, mn_i, mn_parts>>
    /\ MainOthersUnchanged

\* mapbox_flow.main, lines 245-247
FlowTokenCheck ==
    /\ IsFlow /\ mn_pc = "getenv"
    /\ IF TokenMissing(mn_env)
       THEN Raise("EnvironmentError: MAPBOX_TOKEN")
       ELSE Goto("tempdir")
    /\ UNCHANGED <<mn_script, mn_env, mn_sources, mn_i, mn_parts, mn_effects>>
    /\ MainOthersUnchanged

\* mapbox_flow.main, lines 249-252
FlowTempDir ==
    /\ IsFlow /\ mn_pc = "tempdir"
    /\ Effect("tempdir")
    /\ Goto("download")
    /\ mn_i' = 1
    /\ UNCHANGED <<mn_script, mn_env, mn_sources, mn_parts>>
    /\ MainOthersUnchanged

\* after the body of the loop over urls (line 253)
FlowNextUrl ==
    IF mn_i < ArchiveCount
    THEN Goto("download") /\ mn_i' = mn_i + 1
    ELSE Goto("concat") /\ mn_i' = mn_i

\* mapbox_flow.main, line 254
FlowDownload ==
    /\ IsFlow /\ mn_pc = "download"
    /\ Effect("download")
    /\ \E ok \in BOOLEAN : IF ok THEN Goto("extract") ELSE Raise("HTTPError")
    /\ UNCHANGED <<mn_script, mn_env, mn_sources, mn_i, mn_parts>>
    /\ MainOthersUnchanged

\* mapbox_flow.main, line 255
FlowExtract ==
    /\ IsFlow /\ mn_pc = "extract"
    /\ Effect("extract")
    /\ \E ok \in BOOLEAN : IF ok THEN Goto("load") ELSE Raise("BadZipFile")
    /\ UNCHANGED <<mn_script, mn_env, mn_sources, mn_i, mn_parts>>
    /\ MainOthersUnchanged

\* mapbox_flow.main, lines 256-257: load_data_files never raises; without
\* frames the loop goes on to the next url
FlowLoad ==
    /\ IsFlow /\ mn_pc = "load"
    /\ Effect("load")
    /\ \E frames \in BOOLEAN : IF frames THEN Goto("aggregate") /\ mn_i' = mn_i
                               ELSE FlowNextUrl
    /\ UNCHANGED <<mn_script, mn_env, mn_sources, mn_parts>>
    /\ MainOthersUnchanged

\* mapbox_flow.main, lines 258-265: a ValueError of aggregate_metrics is
\* caught; an empty aggregate is not collected
FlowAggregate ==
    /\ IsFlow /\ mn_pc = "aggregate"
    /\ Effect("aggregate")
    /\ \E collected \in BOOLEAN :
          mn_parts' = IF collected THEN mn_parts + 1 ELSE mn_parts
    /\ FlowNextUrl
    /\ UNCHANGED <<mn_script, mn_env, mn_sources>>
    /\ MainOthersUnchanged

\* mapbox_flow.main, lines 266-279: pd.concat raises ValueError on an
\* empty list, dropna raises KeyError without coordinate columns
FlowConcat ==
    /\ IsFlow /\ mn_pc = "concat"
    /\ Effect("aggregate")
    /\ IF mn_parts = 0 THEN Raise("ValueError")
       ELSE \E ok \in BOOLEAN : IF ok THEN Goto("create_html") ELSE Raise("KeyError")
    /\ UNCHANGED <<mn_script, mn_env, mn_sources, mn_i, mn_parts>>
    /\ MainOthersUnchanged

\* mapbox_flow.main, lines 280-283
FlowCreateHtml ==
    /\ IsFlow /\ mn_pc = "create_html"
    /\ Effect("write")
    /\ \E ok \in BOOLEAN : IF ok THEN Goto("done") ELSE Raise("OSError")
    /\ UNCHANGED <<mn_script, mn_env, mn_sources, mn_i, mn_parts>>
    /\ MainOthersUnchanged

MainRunInit ==
    /\ ExpandIdle /\ AggIdle /\ MetricsIdle /\ MapZipIdle /\ PipelineIdle
    /\ HeatIdle /\ FlowFeaturesIdle /\ ClientIdle /\ LoadIdle /\ CallIdle
    /\ MainInit

MainNext ==
    \/ ClientParseArgs \/ ClientTokenCheck \/ ClientDownload \/ ClientExtract
    \/ ClientLoad \/ ClientReadLatLon \/ ClientAggregate \/ ClientCheckParts
    \/ ClientCombine \/ ClientWrite
    \/ FlowTokenCheck \/ FlowTempDir \/ FlowDownload \/ FlowExtract \/ FlowLoad
    \/ FlowAggregate \/ FlowConcat \/ FlowCreateHtml

-----------------------------------------------------------------------------
(* Claims about the runs of the Mapbox scripts (specification SpecMain).   *)

TokenUnsetOrEmpty == ~mn_env.set \/ Len(mn_env.value) = 0

PastTokenCheck == mn_pc \notin {"idle", "parse_args", "getenv"}

(* C9: in a run of client_spend_pipeline.main or mapbox_flow.main whose    *)
(* MAPBOX_TOKEN is unset or empty, nothing is ever downloaded, extracted,  *)
(* loaded, aggregated or written, and once the run is past the token check *)
(* it has ended with an exception.                                         *)
TokenCheckPrecedesProcessing ==
    TokenUnsetOrEmpty =>
        /\ mn_effects = <<>>
        /\ PastTokenCheck => (mn_pc = "raised" /\ mn_error # "none")

TokenCheckPrecedesProcessingWitness ==
    /\ mn_script = "client_spend_pipeline"
    /\ mn_env = EnvSet(<<>>)
    /\ mn_pc = "raised"
    /\ mn_error = "RuntimeError: MAPBOX_TOKEN"
    /\ mn_effects = <<>>

-----------------------------------------------------------------------------
(* Specification of multi-file ingestion: load_spreadsheets and            *)
(* load_data_files run over every list of at most MaxFiles files drawn     *)
(* from two directories, one turn of the loop per step.                    *)

F_a_csv == <<"a",".","c","s","v">>
F_a_XLSX == <<"a",".","X","L","S","X">>
F_b_xls == <<"b",".","x","l","s">>
F_a_txt == <<"a",".","t","x","t">>

FileNames == {F_a_csv, F_a_XLSX, F_b_xls, F_a_txt}

\* the directories the two archives were extracted to
FileDirs == {"archive1", "archive2"}

\* what the file holds: a table with its header in the first row, a table
\* below descriptive rows (first header cell unnamed), or nothing pandas
\* can parse
FileContents == {"table", "preamble", "corrupt"}

Files == [dir : FileDirs, name : FileNames, content : FileContents]

LoadInit ==
    /\ ld_fn \in {"load_spreadsheets", "load_data_files"}
    /\ ld_files \in SeqsUpTo(Files, MaxFiles)
    /\ ld_i = 1
    /\ ld_datasets = <<>>
    /\ ld_frames = <<>>
    /\ ld_pc = "loop"

LoadOthersUnchanged ==
    UNCHANGED <<exVars, agVars, amVars, gmVars, rpVars, hfVars, mfVars, mnVars, fnVars, clVars>>

\* load_spreadsheets, lines 55-74: one file
LoadSpreadsheetsStep ==
    /\ ld_fn = "load_spreadsheets" /\ ld_pc = "loop" /\ ld_i <= Len(ld_files)
    /\ ld_datasets' = LoadSpreadsheetsFile(ld_datasets, ld_files[ld_i])
    /\ ld_i' = ld_i + 1
    /\ UNCHANGED <<ld_fn, ld_files, ld_frames, ld_pc>>
    /\ LoadOthersUnchanged

\* load_data_files, lines 44-54: one file
LoadDataFilesStep ==
    /\ ld_fn = "load_data_files" /\ ld_pc = "loop" /\ ld_i <= Len(ld_files)
    /\ ld_frames' = LoadDataFile(ld_frames, ld_files[ld_i])
    /\ ld_i' = ld_i + 1
    /\ UNCHANGED <<ld_fn, ld_files, ld_datasets, ld_pc>>
    /\ LoadOthersUnchanged

\* load_spreadsheets line 75, load_data_files line 55
LoadReturn ==
    /\ ld_pc = "loop" /\ ld_i > Len(ld_files)
    /\ ld_pc' = "returned"
    /\ UNCHANGED <<ld_fn, ld_files, ld_i, ld_datasets, ld_frames>>
    /\ LoadOthersUnchanged

LoadRunInit ==
    /\ ExpandIdle /\ AggIdle /\ MetricsIdle /\ MapZipIdle /\ PipelineIdle
    /\ HeatIdle /\ FlowFeaturesIdle /\ ClientIdle /\ MainIdle /\ CallIdle
    /\ LoadInit

LoadNext == LoadSpreadsheetsStep \/ LoadDataFilesStep \/ LoadReturn

-----------------------------------------------------------------------------
(* Claims about multi-file ingestion (specification SpecLoad).             *)

SupportedSuffix(f) ==
    \E sfx \in {T_csv, T_xlsx, T_xls} :
        /\ Len(f.name) > Len(sfx)
        /\ Lower(SubSeq(f.name, Len(f.name) - Len(sfx) + 1, Len(f.name))) = sfx

ReadableFile(f) == SupportedSuffix(f) /\ f.content # "corrupt"

LoadedTables ==
    IF ld_fn = "load_spreadsheets"
    THEN {ld_datasets[i].df : i \in 1..Len(ld_datasets)}
    ELSE {ld_frames[i] : i \in 1..Len(ld_frames)}

TableOf(f) == {t \in LoadedTables : t.dir = f.dir /\ t.name = f.name}

(* C10: load_spreadsheets and load_data_files return for every list of     *)
(* files, and the result holds a table read from every readable CSV or    *)
(* Excel file of the list, wherever the unreadable and unsupported files   *)
(* stand.                                                                  *)
LoadKeepsEveryReadableFile ==
    ld_pc = "returned" =>
        \A i \in 1..Len(ld_files) :
            ReadableFile(ld_files[i]) => TableOf(ld_files[i]) # {}

-----------------------------------------------------------------------------
(* Runs of the two scripts without a token check: choropleth_by_spend.main *)
(* and pipeline.main.run_pipeline, in the variables of the Mapbox runs.    *)
(* Every statement that touches the network, the file system or the data  *)
(* is a step that appends to mn_effects.                                   *)

IsChoropleth == mn_script = "choropleth_by_spend"
IsPipeline == mn_script = "run_pipeline"

\* the body shared by the steps that run one statement: the effect, then
\* the next statement or the exception
StepOrRaise(effect, next, exc) ==
    /\ Effect(effect)
    /\ \E ok \in BOOLEAN : IF ok THEN Goto(next) ELSE Raise(exc)

\* the scripts other than the Mapbox ones start at their first statement
ScriptsInit ==
    /\ mn_script \in {"choropleth_by_spend", "run_pipeline"}
    /\ mn_env \in {EnvUnset, EnvSet(T_pk)}
    /\ mn_sources \in [1..ArchiveCount -> {"url", "path"}]
    /\ mn_i = IF mn_script = "run_pipeline" THEN 1 ELSE 0
    /\ mn_parts = 0
    /\ mn_effects = <<>>
    /\ mn_error = "none"
    /\ mn_pc = IF mn_script = "run_pipeline" THEN "load_sources" ELSE "parse_args"

\* choropleth main, lines 53-64
ChoroParseArgs ==
    /\ IsChoropleth /\ mn_pc = "parse_args"
    /\ \E ok \in BOOLEAN :
          IF ok THEN Goto("download") /\ mn_i' = 1
          ELSE Raise("SystemExit") /\ mn_i' = mn_i
    /\ UNCHANGED <<mn_script, mn_env, mn_sources, mn_parts, mn_effects>>
    /\ MainOthersUnchanged

\* choropleth main, lines 66-67, download_if_url (lines 39-49): a URL is
\* fetched once into a temporary file, a local path is returned as it is
ChoroDownload ==
    /\ IsChoropleth /\ mn_pc = "download"
    /\ IF mn_sources[mn_i] = "url"
       THEN /\ Effect("download")
            /\ \E ok \in BOOLEAN :
                  IF ~ok THEN Raise("HTTPError") /\ mn_i' = mn_i
                  ELSE IF mn_i < ArchiveCount
                  THEN Goto("download") /\ mn_i' = mn_i + 1
                  ELSE Goto("read_shapefile") /\ mn_i' = mn_i
       ELSE /\ mn_effects' = mn_effects
            /\ IF mn_i < ArchiveCount
               THEN Goto("download") /\ mn_i' = mn_i + 1
               ELSE Goto("read_shapefile") /\ mn_i' = mn_i
    /\ UNCHANGED <<mn_script, mn_env, mn_sources, mn_parts>>
    /\ MainOthersUnchanged

\* choropleth main, line 69, read_zipped_shapefile (lines 15-26)
ChoroReadShapefile ==
    /\ IsChoropleth /\ mn_pc = "read_shapefile"
    /\ StepOrRaise("extract", "read_csv", "FileNotFoundError")
    /\ UNCHANGED <<mn_script, mn_env, mn_sources, mn_i, mn_parts>>
    /\ MainOthersUnchanged

\* choropleth main, line 70, read_zipped_csv (lines 29-36)
ChoroReadCsv ==
    /\ IsChoropleth /\ mn_pc = "read_csv"
    /\ StepOrRaise("load", "merge", "FileNotFoundError")
    /\ UNCHANGED <<mn_script, mn_env, mn_sources, mn_i, mn_parts>>
    /\ MainOthersUnchanged

\* choropleth main, lines 72-76
ChoroMerge ==
    /\ IsChoropleth /\ mn_pc = "merge"
    /\ StepOrRaise("join", "render", "KeyError")
    /\ UNCHANGED <<mn_script, mn_env, mn_sources, mn_i, mn_parts>>
    /\ MainOthersUnchanged

\* choropleth main, lines 78-104
ChoroRender ==
    /\ IsChoropleth /\ mn_pc = "render"
    /\ StepOrRaise("render", "save", "ValueError")
    /\ UNCHANGED <<mn_script, mn_env, mn_sources, mn_i, mn_parts>>
    /\ MainOthersUnchanged

\* choropleth main, lines 106-107
ChoroSave ==
    /\ IsChoropleth /\ mn_pc = "save"
    /\ StepOrRaise("write", "cleanup", "OSError")
    /\ UNCHANGED <<mn_script, mn_env, mn_sources, mn_i, mn_parts>>
    /\ MainOthersUnchanged

\* choropleth main, lines 109-112: the downloaded copies are removed
ChoroCleanup ==
    /\ IsChoropleth /\ mn_pc = "cleanup"
    /\ mn_effects' = mn_effects \o
          [k \in 1..Len(SelectIdx(ArchiveCount, LAMBDA j : mn_sources[j] = "url"))
              |-> "unlink"]
    /\ Goto("done")
    /\ UNCHANGED <<mn_script, mn_env, mn_sources, mn_i, mn_parts>>
    /\ MainOthersUnchanged

\* run_pipeline, line 40: one turn of the loop of load_sources (lines
\* 56-58), load_dataset (lines 28-50) on the source: a URL is fetched once
\* by _download (lines 21-25), a local path must exist, the suffix must be
\* supported
PipeLoadSource ==
    /\ IsPipeline /\ mn_pc = "load_sources"
    /\ \E outcome \in {"ok", "HTTPError", "FileNotFoundError", "ValueError"} :
          /\ outcome = "HTTPError" => mn_sources[mn_i] = "url"
          /\ outcome = "FileNotFoundError" => mn_sources[mn_i] = "path"
          /\ mn_effects' =
                mn_effects
                    \o (IF mn_sources[mn_i] = "url" THEN <<"download">> ELSE <<>>)
                    \o (IF outcome \in {"ok", "ValueError"} THEN <<"load">> ELSE <<>>)
          /\ IF outcome # "ok" THEN Raise(outcome) /\ mn_i' = mn_i
             ELSE IF mn_i < ArchiveCount
             THEN Goto("load_sources") /\ mn_i' = mn_i + 1
             ELSE Goto("fill_missing") /\ mn_i' = mn_i
    /\ UNCHANGED <<mn_script, mn_env, mn_sources, mn_parts>>
    /\ MainOthersUnchanged

\* run_pipeline, lines 43-48
PipeFillMissing ==
    /\ IsPipeline /\ mn_pc = "fill_missing"
    /\ Effect("clean")
    /\ Goto("normalize")
    /\ UNCHANGED <<mn_script, mn_env, mn_sources, mn_i, mn_parts>>
    /\ MainOthersUnchanged

\* run_pipeline, lines 51-52
PipeNormalize ==
    /\ IsPipeline /\ mn_pc = "normalize"
    /\ StepOrRaise("normalize", "encode", "ValueError")
    /\ UNCHANGED <<mn_script, mn_env, mn_sources, mn_i, mn_parts>>
    /\ MainOthersUnchanged

\* run_pipeline, lines 55-60: encode_categoricals and bucket_time
PipeEncode ==
    /\ IsPipeline /\ mn_pc = "encode"
    /\ StepOrRaise("encode", "map_zip", "ValueError")
    /\ UNCHANGED <<mn_script, mn_env, mn_sources, mn_i, mn_parts>>
    /\ MainOthersUnchanged

\* run_pipeline, lines 63-64: load_zip_dma_mapping and map_zip_to_dma
PipeMapZip ==
    /\ IsPipeline /\ mn_pc = "map_zip"
    /\ StepOrRaise("join", "merge", "KeyError")
    /\ UNCHANGED <<mn_script, mn_env, mn_sources, mn_i, mn_parts>>
    /\ MainOthersUnchanged

\* run_pipeline, lines 68-74: the visits table is joined and merged in
PipeMerge ==
    /\ IsPipeline /\ mn_pc = "merge"
    /\ StepOrRaise("join", "model", "KeyError")
    /\ UNCHANGED <<mn_script, mn_env, mn_sources, mn_i, mn_parts>>
    /\ MainOthersUnchanged

\* run_pipeline, lines 77-88
PipeModel ==
    /\ IsPipeline /\ mn_pc = "model"
    /\ StepOrRaise("model", "choropleth", "ValueError")
    /\ UNCHANGED <<mn_script, mn_env, mn_sources, mn_i, mn_parts>>
    /\ MainOthersUnchanged

\* run_pipeline, lines 91-92: spend_map.html
PipeChoropleth ==
    /\ IsPipeline /\ mn_pc = "choropleth"
    /\ StepOrRaise("write", "dashboard", "KeyError")
    /\ UNCHANGED <<mn_script, mn_env, mn_sources, mn_i, mn_parts>>
    /\ MainOthersUnchanged

\* run_pipeline, lines 94-95
PipeDashboard ==
    /\ IsPipeline /\ mn_pc = "dashboard"
    /\ StepOrRaise("render", "done", "OSError")
    /\ UNCHANGED <<mn_script, mn_env, mn_sources, mn_i, mn_parts>>
    /\ MainOthersUnchanged

\* every script that downloads, each started on its own command line
RunsInit ==
    /\ ExpandIdle /\ AggIdle /\ MetricsIdle /\ MapZipIdle /\ PipelineIdle
    /\ HeatIdle /\ FlowFeaturesIdle /\ ClientIdle /\ LoadIdle /\ CallIdle
    /\ MainInit \/ ScriptsInit

RunsNext ==
    \/ MainNext
    \/ ChoroParseArgs \/ ChoroDownload \/ ChoroReadShapefile \/ ChoroReadCsv
    \/ ChoroMerge \/ ChoroRender \/ ChoroSave \/ ChoroCleanup
    \/ PipeLoadSource \/ PipeFillMissing \/ PipeNormalize \/ PipeEncode
    \/ PipeMapZip \/ PipeMerge \/ PipeModel \/ PipeChoropleth \/ PipeDashboard

-----------------------------------------------------------------------------
(* Claims about the runs of all four scripts (specification SpecRuns).     *)

CountOf(s, e) == Cardinality({k \in 1..Len(s) : s[k] = e})

\* the sources a run has asked the network for, the one it is at included
UrlsReached == {j \in 1..ArchiveCount : j <= mn_i /\ mn_sources[j] = "url"}

(* C11: in a run of any script that a download ended with an HTTP error,   *)
(* every URL reached was fetched exactly once (the failing one is not      *)
(* fetched again), the failing download is the last thing the run did, the *)
(* run has ended with the error and no output file was written.            *)
HttpErrorAbortsRun ==
    mn_error = "HTTPError" =>
        /\ mn_pc = "raised"
        /\ CountOf(mn_effects, "download") = Cardinality(UrlsReached)
        /\ mn_effects # <<>>
        /\ mn_effects[Len(mn_effects)] = "download"
        /\ CountOf(mn_effects, "write") = 0

HttpErrorAbortsRunWitness ==
    /\ mn_script = "run_pipeline"
    /\ mn_error = "HTTPError"
    /\ mn_i = ArchiveCount
    /\ CountOf(mn_effects, "download") = ArchiveCount

-----------------------------------------------------------------------------
(* pipeline/data_ingestion.py: load_dataset and load_sources.  A source is *)
(* its path text, whether the path is there (the file exists, or the URL   *)
(* answers with a success status), the name of the first member when it is *)
(* an archive, and whether pandas can parse the bytes.                     *)

T_http == <<"h","t","t","p",":","/","/">>
T_https == <<"h","t","t","p","s",":","/","/">>
T_dotzip == <<".","z","i","p">>

\* Path(path).name: the text after the last slash
PathName(path) ==
    IF \E i \in 1..Len(path) : path[i] = "/"
    THEN LET i == CHOOSE k \in 1..Len(path) :
                      path[k] = "/" /\ \A j \in (k+1)..Len(path) : path[j] # "/"
         IN SubSeq(path, i + 1, Len(path))
    ELSE path

\* the table pandas reads from the bytes of a source
SourceTable(src) == [path |-> src.path, member |-> src.member]

Returned(v) == [status |-> "ok", value |-> v]
Raised(exc) == [status |-> exc, value |-> <<>>]

\* _read_from_bytes, lines 12-18
ReadFromBytes(src, suffix) ==
    IF suffix = T_csv
    THEN IF src.content = "corrupt" THEN Raised("ParserError")
         ELSE Returned(SourceTable(src))
    ELSE IF suffix \in {T_xlsx, T_xls}
    THEN IF src.content = "corrupt" THEN Raised("ParserError")
         ELSE Returned(SourceTable(src))
    ELSE Raised("ValueError")

\* lines 33-39 and 45-50: an archive is read through its first member
ReadPathOrArchive(src) ==
    LET suffix == Lower(PathSuffix(PathName(src.path)))
    IN IF suffix = T_dotzip
       THEN ReadFromBytes(src, Lower(PathSuffix(PathName(src.member))))
       ELSE ReadFromBytes(src, suffix)

\* load_dataset, lines 28-50
LoadDataset(src) ==
    IF StartsWith(src.path, T_http) \/ StartsWith(src.path, T_https)
    THEN IF ~src.found THEN Raised("HTTPError") ELSE ReadPathOrArchive(src)
    ELSE IF ~src.found THEN Raised("FileNotFoundError")
         ELSE ReadPathOrArchive(src)

\* a loader that leaves out the sources it cannot load
LoadSourcesSkipping(sources) ==
    LET F[i \in 0..Len(sources)] ==
            IF i = 0 THEN <<>>
            ELSE LET df == LoadDataset(sources[i])
                 IN IF df.status # "ok" THEN F[i-1]
                    ELSE DictPut(F[i-1], PathStem(PathName(sources[i].path)), df.value)
    IN Returned(F[Len(sources)])

\* load_sources, lines 53-59: the first exception of load_dataset leaves
\* the loop and the function
LoadSources(sources) ==
    LET F[i \in 0..Len(sources)] ==
            IF i = 0 THEN Returned(<<>>)
            ELSE IF F[i-1].status # "ok" THEN F[i-1]
            ELSE LET df == LoadDataset(sources[i])
                 IN IF df.status # "ok" THEN Raised(df.status)
                    ELSE Returned(DictPut(F[i-1].value,
                                          PathStem(PathName(sources[i].path)),
                                          df.value))
    IN F[Len(sources)]

-----------------------------------------------------------------------------
(* Specification of ingestion by pipeline/data_ingestion.py: load_dataset  *)
(* on every source of the pool, load_sources on every list of at most      *)
(* MaxFiles of them.                                                       *)

P_url_csv == <<"h","t","t","p","s",":","/","/","h","/","s",".","c","s","v">>
P_url_zip == <<"h","t","t","p",":","/","/","h","/","a",".","z","i","p">>
P_csv == <<"s",".","c","s","v">>
P_dir_XLS == <<"d","/","v",".","X","L","S">>
P_txt == <<"n",".","t","x","t">>
P_zip == <<"d","/","a",".","Z","I","P">>

SourcePaths == {P_url_csv, P_url_zip, P_csv, P_dir_XLS, P_txt, P_zip}

M_csv == <<"m",".","c","s","v">>
M_json == <<"m",".","j","s","o","n">>

IsArchivePath(path) ==
    Len(path) > 4 /\ Lower(SubSeq(path, Len(path) - 3, Len(path))) = T_dotzip

Sources ==
    UNION {[path : {p}, found : BOOLEAN,
            member : IF IsArchivePath(p) THEN {M_csv, M_json} ELSE {<<>>},
            content : {"table", "corrupt"}] : p \in SourcePaths}

LoadDatasetInit ==
    /\ fn = "load_dataset"
    /\ fn_args \in Sources
    /\ fn_out = <<>>
    /\ fn_pc = "call"

LoadSourcesInit ==
    /\ fn = "load_sources"
    /\ fn_args \in SeqsUpTo(Sources, MaxFiles)
    /\ fn_out = <<>>
    /\ fn_pc = "call"

CallOthersUnchanged ==
    UNCHANGED <<exVars, agVars, amVars, gmVars, rpVars, hfVars, mfVars, mnVars,
                ldVars, clVars, fn, fn_args>>

CallLoadDataset ==
    /\ fn = "load_dataset" /\ fn_pc = "call"
    /\ fn_out' = LoadDataset(fn_args)
    /\ fn_pc' = "done"
    /\ CallOthersUnchanged

CallLoadSources ==
    /\ fn = "load_sources" /\ fn_pc = "call"
    /\ fn_out' = LoadSources(fn_args)
    /\ fn_pc' = "done"
    /\ CallOthersUnchanged

IngestInit ==
    /\ ExpandIdle /\ AggIdle /\ MetricsIdle /\ MapZipIdle /\ PipelineIdle
    /\ HeatIdle /\ FlowFeaturesIdle /\ ClientIdle /\ MainIdle /\ LoadIdle
    /\ LoadDatasetInit \/ LoadSourcesInit

IngestNext == CallLoadDataset \/ CallLoadSources

-----------------------------------------------------------------------------
(* Claims about ingestion (specification SpecIngest).                      *)

EndsWithNoCase(text, sfx) ==
    /\ Len(text) >= Len(sfx)
    /\ Lower(SubSeq(text, Len(text) - Len(sfx) + 1, Len(text))) = sfx

IsUrl(src) == StartsWith(src.path, T_http) \/ StartsWith(src.path, T_https)

SourceMissing(src) == ~IsUrl(src) /\ ~src.found

\* the file whose suffix counts: the first member of an archive, else the
\* source itself
SourceUnsupported(src) ==
    LET file == IF EndsWithNoCase(src.path, T_dotzip) THEN src.member ELSE src.path
    IN ~\E sfx \in {T_csv, T_xlsx, T_xls} : EndsWithNoCase(file, sfx)

SourceLoads(src) ==
    src.found /\ ~SourceUnsupported(src) /\ src.content = "table"

\* the error the claim names for a source, "other" for a failure it does
\* not name (HTTP error, unparsable bytes)
ClaimedError(src) ==
    IF SourceMissing(src) THEN "FileNotFoundError"
    ELSE IF src.found /\ SourceUnsupported(src) THEN "ValueError"
    ELSE "other"

ErrorAsClaimed(src, status) ==
    /\ status # "ok"
    /\ ClaimedError(src) # "other" => status = ClaimedError(src)

(* C12: load_dataset raises FileNotFoundError for a local path that does   *)
(* not exist and ValueError for a file, or first archive member, whose     *)
(* suffix is none of .csv, .xlsx, .xls; load_sources raises the error of   *)
(* the first source that fails and returns no dataset map then, also when  *)
(* earlier sources loaded; it returns a map only when every source loads.  *)
IngestAbortsOnFirstFailure ==
    /\ (fn = "load_dataset" /\ fn_pc = "done") =>
          IF SourceLoads(fn_args) THEN fn_out.status = "ok"
          ELSE ErrorAsClaimed(fn_args, fn_out.status) /\ fn_out.value = <<>>
    /\ (fn = "load_sources" /\ fn_pc = "done") =>
          LET failing == {i \in 1..Len(fn_args) : ~SourceLoads(fn_args[i])}
          IN IF failing = {} THEN fn_out.status = "ok"
             ELSE LET first == CHOOSE i \in failing : \A j \in failing : i <= j
                  IN /\ ErrorAsClaimed(fn_args[first], fn_out.status)
                     /\ fn_out.value = <<>>

IngestAbortsOnFirstFailureWitness ==
    /\ fn = "load_sources" /\ fn_pc = "done"
    /\ Len(fn_args) = 2
    /\ SourceLoads(fn_args[1])
    /\ fn_args[2].path = P_zip /\ fn_args[2].found /\ fn_args[2].member = M_json
    /\ fn_out.status = "ValueError"

-----------------------------------------------------------------------------
(* pipeline/merging.py: merge_on_keys, and the outer merge of pandas it    *)
(* folds over the list                                                     *)

T_suffix_x == <<"_","x">>
T_suffix_y == <<"_","y">>

\* the key of a row: its cells in the key columns
MergeKey(df, keys, r) ==
    [k \in 1..Len(keys) |-> df.rows[r][FieldIdx(df.cols, keys[k])]]

\* the columns of df that are not keys, in column order
NonKeyCols(df, keys) ==
    SelectIdx(Len(df.cols), LAMBDA c : df.cols[c] \notin Range(keys))

\* a column holding numbers and a missing value is a float column
UpcastColumns(df) ==
    [cols |-> df.cols,
     rows |-> [r \in 1..Len(df.rows) |->
                 [c \in 1..Len(df.cols) |->
                     IF DtypeKind(df, c) = "f" THEN ToFloat(df.rows[r][c])
                     ELSE df.rows[r][c]]]]

\* a left join in place of the outer one: the keys only the right table
\* has are lost
MergeOuterAsLeft(left, right, keys) ==
    IF \E k \in 1..Len(keys) :
           FieldIdx(left.cols, keys[k]) = 0 \/ FieldIdx(right.cols, keys[k]) = 0
    THEN Raised("KeyError")
    ELSE
    LET rnk == NonKeyCols(right, keys)
        K == {MergeKey(left, keys, r) : r \in 1..Len(left.rows)}
        order == SortKeys(K)
        rowsOf(df, key) ==
            SelectIdx(Len(df.rows), LAMBDA r : MergeKey(df, keys, r) = key)
        joined(key) ==
            LET L == rowsOf(left, key)
                R == rowsOf(right, key)
            IN IF R = <<>>
               THEN [i \in 1..Len(L) |->
                        left.rows[L[i]] \o [c \in 1..Len(rnk) |-> NaN]]
               ELSE Concat([i \in 1..Len(L) |->
                        [j \in 1..Len(R) |->
                            left.rows[L[i]] \o
                                [c \in 1..Len(rnk) |-> right.rows[R[j]][rnk[c]]]]])
    IN Returned(UpcastColumns(
           [cols |-> left.cols \o [c \in 1..Len(rnk) |-> right.cols[rnk[c]]],
            rows |-> Concat([k \in 1..Len(order) |-> joined(order[k])])]))

\* left.merge(right, on=keys, how="outer") (line 14): one row for every
\* pairing of a left and a right row with the same key, one for every row
\* whose key the other table lacks, with missing values in the other
\* table's columns; keys in ascending order; a non-key name both tables
\* have is suffixed _x on the left and _y on the right
MergeOuter(left, right, keys) ==
    IF \E k \in 1..Len(keys) :
           FieldIdx(left.cols, keys[k]) = 0 \/ FieldIdx(right.cols, keys[k]) = 0
    THEN Raised("KeyError")
    ELSE
    LET lnk == NonKeyCols(left, keys)
        rnk == NonKeyCols(right, keys)
        shared(n) == /\ \E c \in 1..Len(lnk) : left.cols[lnk[c]] = n
                     /\ \E c \in 1..Len(rnk) : right.cols[rnk[c]] = n
        lcols == [c \in 1..Len(left.cols) |->
                     IF shared(left.cols[c]) THEN left.cols[c] \o T_suffix_x
                     ELSE left.cols[c]]
        rcols == [c \in 1..Len(rnk) |->
                     IF shared(right.cols[rnk[c]])
                     THEN right.cols[rnk[c]] \o T_suffix_y
                     ELSE right.cols[rnk[c]]]
        K == {MergeKey(left, keys, r) : r \in 1..Len(left.rows)}
                 \cup {MergeKey(right, keys, r) : r \in 1..Len(right.rows)}
        order == SortKeys(K)
        rowsOf(df, key) ==
            SelectIdx(Len(df.rows), LAMBDA r : MergeKey(df, keys, r) = key)
        \* a row of the left layout for a key only the right table has
        keyOnly(key) ==
            [c \in 1..Len(left.cols) |->
                IF left.cols[c] \in Range(keys)
                THEN key[CHOOSE k \in 1..Len(keys) : keys[k] = left.cols[c]]
                ELSE NaN]
        rightCells(r) == [c \in 1..Len(rnk) |-> right.rows[r][rnk[c]]]
        joined(key) ==
            LET L == rowsOf(left, key)
                R == rowsOf(right, key)
            IN IF R = <<>>
               THEN [i \in 1..Len(L) |->
                        left.rows[L[i]] \o [c \in 1..Len(rnk) |-> NaN]]
               ELSE IF L = <<>>
               THEN [j \in 1..Len(R) |-> keyOnly(key) \o rightCells(R[j])]
               ELSE Concat([i \in 1..Len(L) |->
                        [j \in 1..Len(R) |-> left.rows[L[i]] \o rightCells(R[j])]])
    IN Returned(UpcastColumns(
           [cols |-> lcols \o rcols,
            rows |-> Concat([k \in 1..Len(order) |-> joined(order[k])])]))

\* a merge that leaves the last table of the list out
MergeOnKeysWithoutLast(dfs, keys) ==
    IF dfs = <<>> THEN Raised("ValueError")
    ELSE LET F[i \in 1..Len(dfs)] ==
                 IF i = 1 THEN Returned(dfs[1])
                 ELSE IF F[i-1].status # "ok" THEN F[i-1]
                 ELSE IF i = Len(dfs) THEN F[i-1]
                 ELSE MergeOuter(F[i-1].value, dfs[i], keys)
         IN F[Len(dfs)]

\* merge_on_keys, lines 8-15
MergeOnKeys(dfs, keys) ==
    IF dfs = <<>> THEN Raised("ValueError")
    ELSE LET F[i \in 1..Len(dfs)] ==
                 IF i = 1 THEN Returned(dfs[1])
                 ELSE IF F[i-1].status # "ok" THEN F[i-1]
                 ELSE MergeOuter(F[i-1].value, dfs[i], keys)
         IN F[Len(dfs)]

-----------------------------------------------------------------------------
(* Calls of merge_on_keys, after the pattern of test_merge_on_keys: tables *)
(* sharing their key columns, each with one column of its own.             *)

N_id == <<"i","d">>
N_g == <<"g">>
N_a == <<"a">>
N_b == <<"b">>
N_c == <<"c">>

MergeKeyLists == {<<N_id>>, <<N_id, N_g>>}

\* the key values a table can hold, for either list of key columns
MergeKeyPool(keys) ==
    IF Len(keys) = 1
    THEN {<<IntV(1)>>, <<IntV(2)>>, <<IntV(3)>>}
    ELSE {<<IntV(1), StrV(N_a)>>, <<IntV(1), StrV(N_b)>>, <<IntV(2), StrV(N_a)>>}

OwnColumn == <<N_a, N_b, N_c>>

\* the value the t-th table holds for a key: whole numbers in the first
\* table, fractions and a missing value in the second, text in the third
OwnValue(t, key) ==
    LET n == key[1].n + (IF Len(key) > 1 /\ key[2] = StrV(N_b) THEN 2 ELSE 0)
    IN IF t = 1 THEN IntV(10 * n)
       ELSE IF t = 2 THEN (IF n = 1 THEN NaN ELSE FloatV(n, 2))
       ELSE StrV(IF n = 2 THEN N_a ELSE N_b)

\* the t-th table holding the given keys, one row each, in the given order
KeyedTable(t, keys, ks) ==
    [cols |-> Append(keys, OwnColumn[t]),
     rows |-> [r \in 1..Len(ks) |-> Append(ks[r], OwnValue(t, ks[r]))]]

\* lists of distinct keys, at most MaxRows long
DistinctKeyLists(keys) ==
    {ks \in SeqsUpTo(MergeKeyPool(keys), MaxRows) :
        \A i, j \in 1..Len(ks) : i # j => ks[i] # ks[j]}

OrdersOfThree ==
    {<<1,2,3>>, <<1,3,2>>, <<2,1,3>>, <<2,3,1>>, <<3,1,2>>, <<3,2,1>>}

MergeOnKeysInit ==
    /\ fn = "merge_on_keys"
    /\ \E keys \in MergeKeyLists :
       \E m \in 0..3 :
       \E kss \in [1..m -> DistinctKeyLists(keys)] :
           fn_args = [dfs |-> [t \in 1..m |-> KeyedTable(t, keys, kss[t])],
                      keys |-> keys]
    /\ fn_out = <<>>
    /\ fn_pc = "call"

MergeOrdersInit ==
    /\ fn = "merge_orders"
    /\ \E keys \in MergeKeyLists :
       \E kss \in [1..3 -> DistinctKeyLists(keys)] :
           fn_args = [dfs |-> [t \in 1..3 |-> KeyedTable(t, keys, kss[t])],
                      keys |-> keys]
    /\ fn_out = <<>>
    /\ fn_pc = "call"

CallMergeOnKeys ==
    /\ fn = "merge_on_keys" /\ fn_pc = "call"
    /\ fn_out' = MergeOnKeys(fn_args.dfs, fn_args.keys)
    /\ fn_pc' = "done"
    /\ CallOthersUnchanged

\* merge_on_keys on the same three tables in each of the six list orders
CallMergeOrders ==
    /\ fn = "merge_orders" /\ fn_pc = "call"
    /\ fn_out' = [o \in OrdersOfThree |->
                     MergeOnKeys([i \in 1..3 |-> fn_args.dfs[o[i]]], fn_args.keys)]
    /\ fn_pc' = "done"
    /\ CallOthersUnchanged

MergeInit ==
    /\ ExpandIdle /\ AggIdle /\ MetricsIdle /\ MapZipIdle /\ PipelineIdle
    /\ HeatIdle /\ FlowFeaturesIdle /\ ClientIdle /\ MainIdle /\ LoadIdle
    /\ MergeOnKeysInit \/ MergeOrdersInit

MergeNext == CallMergeOnKeys \/ CallMergeOrders

-----------------------------------------------------------------------------
(* Claims about merging (specification SpecMerge).                         *)

\* a table as a set of rows, each row a mapping from column name to value
RowSet(df) ==
    {[n \in Range(df.cols) |-> row[FieldIdx(df.cols, n)]] :
        row \in Range(df.rows)}

KeysIn(df, keys) == {MergeKey(df, keys, r) : r \in 1..Len(df.rows)}

\* C13: three tables that share the key columns, hold each key once and
\* name their other columns differently give the same set of rows (the same
\* keys, the same values for each key) in every one of the six list orders
\* merge_on_keys can be given them in.
MergeOrderIndependent ==
    (fn = "merge_orders" /\ fn_pc = "done") =>
        \A o, p \in OrdersOfThree :
            /\ fn_out[o].status = "ok"
            /\ RowSet(fn_out[o].value) = RowSet(fn_out[p].value)

\* two orders place the columns differently, every table brings a key the
\* others lack, and still the rows agree
MergeOrderIndependentWitness ==
    /\ fn = "merge_orders" /\ fn_pc = "done"
    /\ \A t \in 1..3 : \E k \in KeysIn(fn_args.dfs[t], fn_args.keys) :
           \A u \in (1..3) \ {t} : k \notin KeysIn(fn_args.dfs[u], fn_args.keys)
    /\ fn_out[<<1,2,3>>].value.cols # fn_out[<<3,2,1>>].value.cols
    /\ fn_out[<<1,2,3>>].value.rows # fn_out[<<3,2,1>>].value.rows
    /\ RowSet(fn_out[<<1,2,3>>].value) = RowSet(fn_out[<<3,2,1>>].value)

\* the result's rows with the given key
RowsWithKey(df, keys, key) ==
    {r \in 1..Len(df.rows) : MergeKey(df, keys, r) = key}

\* C14: merge_on_keys is the outer join of the list from left to right:
\* the result holds every key of every table exactly once, with that
\* table's value where the table has the key and a missing value where it
\* does not; a list of one table gives the table back; an empty list raises
\* ValueError.
MergeOnKeysIsOuterFold ==
    (fn = "merge_on_keys" /\ fn_pc = "done") =>
        LET dfs == fn_args.dfs
            keys == fn_args.keys
        IN /\ dfs = <<>> <=> fn_out = Raised("ValueError")
           /\ Len(dfs) = 1 => fn_out = Returned(dfs[1])
           /\ dfs # <<>> =>
                /\ fn_out.status = "ok"
                /\ KeysIn(fn_out.value, keys)
                       = UNION {KeysIn(dfs[t], keys) : t \in 1..Len(dfs)}
                /\ \A key \in KeysIn(fn_out.value, keys) :
                       Cardinality(RowsWithKey(fn_out.value, keys, key)) = 1
                /\ fn_out.value.cols
                       = keys \o [t \in 1..Len(dfs) |-> OwnColumn[t]]
                /\ \A r \in 1..Len(fn_out.value.rows) : \A t \in 1..Len(dfs) :
                       LET key == MergeKey(fn_out.value, keys, r)
                           cell == fn_out.value.rows[r][Len(keys) + t]
                       IN IF key \in KeysIn(dfs[t], keys)
                          THEN ToFloat(cell) = ToFloat(OwnValue(t, key))
                          ELSE cell = NaN

\* three tables, the last one alone holding some key, which the result
\* shows with missing values for the other two
MergeOnKeysIsOuterFoldWitness ==
    /\ fn = "merge_on_keys" /\ fn_pc = "done"
    /\ Len(fn_args.dfs) = 3
    /\ fn_out.status = "ok"
    /\ \E r \in 1..Len(fn_out.value.rows) :
           LET key == MergeKey(fn_out.value, fn_args.keys, r)
           IN /\ key \in KeysIn(fn_args.dfs[3], fn_args.keys)
              /\ key \notin KeysIn(fn_args.dfs[1], fn_args.keys)
              /\ key \notin KeysIn(fn_args.dfs[2], fn_args.keys)
              /\ fn_out.value.rows[r][Len(fn_args.keys) + 1] = NaN
              /\ fn_out.value.rows[r][Len(fn_args.keys) + 2] = NaN
              /\ fn_out.value.rows[r][Len(fn_args.keys) + 3] # NaN

-----------------------------------------------------------------------------
(* pipeline/preprocessing.py: encode_categorical_label, encode_categoricals *)

\* LabelEncoder().fit_transform(df[col].astype(str)): the position of the
\* cell's text among the column's distinct texts in ascending order, from 0
LabelEncodeColumn(col) ==
    LET texts == [r \in 1..Len(col) |-> StrV(ToStr(col[r]))]
        classes == Categories(texts)
    IN [r \in 1..Len(col) |-> IntV(FieldIdx(classes, texts[r]) - 1)]

\* encode_categorical_label(df, columns), lines 42-47
EncodeCategoricalLabel(df, columns) ==
    LET F[k \in 0..Len(columns)] ==
            IF k = 0 THEN df
            ELSE SetColumn(F[k-1], columns[k],
                     LabelEncodeColumn(
                         Column(F[k-1], FieldIdx(F[k-1].cols, columns[k]))))
    IN F[Len(columns)]

\* a dispatch that one-hot encodes whatever the method
EncodeCategoricalsOnehotOnly(df, columns, method) ==
    EncodeCategoricalOnehot(df, columns)

\* encode_categoricals(df, columns, method), lines 50-54
EncodeCategoricals(df, columns, method) ==
    IF method = "onehot" THEN EncodeCategoricalOnehot(df, columns)
    ELSE EncodeCategoricalLabel(df, columns)

-----------------------------------------------------------------------------
(* Calls of encode_categoricals, after the pattern of                      *)
(* test_encode_categoricals_onehot: two text columns and a number column   *)

N_color == <<"c","o","l","o","r">>
N_size == <<"s","i","z","e">>
N_val == <<"v","a","l">>
V_red == <<"r","e","d">>
V_blue == <<"b","l","u","e">>
V_S == <<"S">>
V_M == <<"M">>

EncodeRows ==
    {<<StrV(c), StrV(s), IntV(v)>> : c \in {V_red, V_blue}, s \in {V_S, V_M},
                                     v \in {2, 10}}

EncodeFrames ==
    {[cols |-> <<N_color, N_size, N_val>>, rows |-> rows] :
        rows \in SeqsUpTo(EncodeRows, MaxRows) \ {<<>>}}

EncodeColumnLists ==
    {<<N_color>>, <<N_size>>, <<N_val>>, <<N_color, N_size>>,
     <<N_size, N_color>>, <<N_val, N_color>>}

EncodeMethods == {"onehot", "label", "ordinal"}

EncodeCategoricalsInit ==
    /\ fn = "encode_categoricals"
    /\ fn_args \in [df : EncodeFrames, columns : EncodeColumnLists,
                    method : EncodeMethods]
    /\ fn_out = <<>>
    /\ fn_pc = "call"

CallEncodeCategoricals ==
    /\ fn = "encode_categoricals" /\ fn_pc = "call"
    /\ fn_out' = EncodeCategoricals(fn_args.df, fn_args.columns, fn_args.method)
    /\ fn_pc' = "done"
    /\ CallOthersUnchanged

EncodeInit ==
    /\ ExpandIdle /\ AggIdle /\ MetricsIdle /\ MapZipIdle /\ PipelineIdle
    /\ HeatIdle /\ FlowFeaturesIdle /\ ClientIdle /\ MainIdle /\ LoadIdle
    /\ EncodeCategoricalsInit

EncodeNext == CallEncodeCategoricals

-----------------------------------------------------------------------------
(* Claims about encoding (specification SpecEncode).                       *)

DistinctValues(df, name) ==
    {df.rows[r][FieldIdx(df.cols, name)] : r \in 1..Len(df.rows)}

IndicatorName(name, v) == name \o <<"_">> \o ToStr(v)

\* the positions of the result's columns named <name>_...
IndicatorsOf(out, name) ==
    {c \in 1..Len(out.cols) : StartsWith(out.cols[c], name \o <<"_">>)}

\* the unlisted columns of df are in out, cell for cell
UnlistedUnchanged(df, columns, out) ==
    /\ Len(out.rows) = Len(df.rows)
    /\ \A c \in 1..Len(df.cols) :
           df.cols[c] \notin Range(columns) =>
               /\ FieldIdx(out.cols, df.cols[c]) # 0
               /\ Column(out, FieldIdx(out.cols, df.cols[c])) = Column(df, c)

\* C15: with method "onehot" a listed column of k distinct values becomes k
\* indicator columns, of which each row has a 1 in the one of its own value
\* and a 0 in the others; the listed columns are gone and the unlisted ones,
\* the row count and the row order are as before. With any other method the
\* listed columns are label encoded.
OnehotOneIndicatorPerValue ==
    (fn = "encode_categoricals" /\ fn_pc = "done") =>
        LET df == fn_args.df
            columns == fn_args.columns
            out == fn_out
        IN /\ UnlistedUnchanged(df, columns, out)
           /\ IF fn_args.method = "onehot"
              THEN /\ \A k \in 1..Len(columns) :
                        LET D == DistinctValues(df, columns[k])
                        IN /\ Cardinality(IndicatorsOf(out, columns[k]))
                                  = Cardinality(D)
                           /\ columns[k] \notin Range(out.cols)
                           /\ \A v \in D : \A r \in 1..Len(df.rows) :
                                  LET i == FieldIdx(out.cols,
                                               IndicatorName(columns[k], v))
                                      own == df.rows[r][FieldIdx(df.cols, columns[k])]
                                  IN /\ i # 0
                                     /\ out.rows[r][i] =
                                            IF own = v THEN FloatV(1, 1)
                                            ELSE FloatV(0, 1)
                   /\ Len(out.cols) + Len(columns) = Len(df.cols) +
                          SumSeq([k \in 1..Len(columns) |->
                                     Cardinality(DistinctValues(df, columns[k]))])
              ELSE /\ out.cols = df.cols
                   /\ \A k \in 1..Len(columns) : \A r \in 1..Len(df.rows) :
                          LET c == FieldIdx(df.cols, columns[k])
                              texts == {ToStr(v) : v \in DistinctValues(df, columns[k])}
                          IN out.rows[r][c] =
                                 IntV(Cardinality({t \in texts :
                                          TextLess(t, ToStr(df.rows[r][c]))}))

\* two listed columns, one with two values and one with a single value, in
\* rows of which the first has the greater value
OnehotOneIndicatorPerValueWitness ==
    /\ fn = "encode_categoricals" /\ fn_pc = "done"
    /\ fn_args.method = "onehot"
    /\ fn_args.columns = <<N_val, N_color>>
    /\ Len(fn_args.df.rows) = 2
    /\ fn_args.df.rows[1][3] = IntV(10) /\ fn_args.df.rows[2][3] = IntV(2)
    /\ Cardinality(DistinctValues(fn_args.df, N_color)) = 1
    /\ Cardinality(IndicatorsOf(fn_out, N_val)) = 2
    /\ Cardinality(IndicatorsOf(fn_out, N_color)) = 1
    /\ fn_out.rows[1][FieldIdx(fn_out.cols, IndicatorName(N_val, IntV(10)))]
           = FloatV(1, 1)
    /\ fn_out.rows[1][FieldIdx(fn_out.cols, IndicatorName(N_val, IntV(2)))]
           = FloatV(0, 1)

-----------------------------------------------------------------------------
(* pipeline/preprocessing.py: normalize_numeric with its method argument   *)

\* MinMaxScaler().fit_transform on one integer column: (x - min) / (max -
\* min), the range replaced by 1 when it is 0
MinMaxScaleColumn(col) ==
    LET sorted == SortInts([r \in 1..Len(col) |-> col[r].n])
        lo == sorted[1]
        range == sorted[Len(sorted)] - lo
    IN [r \in 1..Len(col) |->
           FloatV(col[r].n - lo, IF range = 0 THEN 1 ELSE range)]

\* a normalisation that scales every whole-number column, listed or not
NormalizeNumericEveryColumn(df, columns, method) ==
    LET scaled == [c \in 1..Len(df.cols) |->
                      IF DtypeKind(df, c) # "i" THEN Column(df, c)
                      ELSE IF method = "robust"
                      THEN RobustScaleColumn(Column(df, c))
                      ELSE MinMaxScaleColumn(Column(df, c))]
    IN [cols |-> df.cols,
        rows |-> [r \in 1..Len(df.rows) |->
                     [c \in 1..Len(df.cols) |-> scaled[c][r]]]]

\* normalize_numeric(df, columns, method), lines 26-30
NormalizeNumericWith(df, columns, method) ==
    IF method = "robust" THEN PipelineNormalizeNumeric(df, columns)
    ELSE LET scaled == [c \in 1..Len(df.cols) |->
                           IF df.cols[c] \in Range(columns)
                           THEN MinMaxScaleColumn(Column(df, c))
                           ELSE Column(df, c)]
         IN [cols |-> df.cols,
             rows |-> [r \in 1..Len(df.rows) |->
                          [c \in 1..Len(df.cols) |-> scaled[c][r]]]]

-----------------------------------------------------------------------------
(* Calls of normalize_numeric, after the pattern of                        *)
(* test_normalize_numeric_robust: number columns a and b, and a text column *)

ScaleRows ==
    {<<IntV(a), IntV(b), StrV(s)>> : a \in {1, 2, 4}, b \in {10, 20},
                                     s \in {V_S, V_M}}

ScaleFrames ==
    {[cols |-> <<N_a, N_b, N_size>>, rows |-> rows] :
        rows \in SeqsUpTo(ScaleRows, MaxRows) \ {<<>>}}

ScaleColumnLists == {<<N_a>>, <<N_b>>, <<N_a, N_b>>, <<N_b, N_a>>}

ScaleMethods == {"robust", "minmax", "standard"}

NormalizeNumericInit ==
    /\ fn = "normalize_numeric"
    /\ fn_args \in [df : ScaleFrames, columns : ScaleColumnLists,
                    method : ScaleMethods]
    /\ fn_out = <<>>
    /\ fn_pc = "call"

CallNormalizeNumeric ==
    /\ fn = "normalize_numeric" /\ fn_pc = "call"
    /\ fn_out' = NormalizeNumericWith(fn_args.df, fn_args.columns, fn_args.method)
    /\ fn_pc' = "done"
    /\ CallOthersUnchanged

ScaleInit ==
    /\ ExpandIdle /\ AggIdle /\ MetricsIdle /\ MapZipIdle /\ PipelineIdle
    /\ HeatIdle /\ FlowFeaturesIdle /\ ClientIdle /\ MainIdle /\ LoadIdle
    /\ NormalizeNumericInit

ScaleNext == CallNormalizeNumeric

-----------------------------------------------------------------------------
(* Claims about scaling (specification SpecScale).                         *)

\* col is the min-max scaling of the whole numbers src: 0 at the least, 1 at
\* the greatest, in proportion between; all 0 when src has one value
IsMinMaxOf(col, src) ==
    \E lo, hi \in {src[r].n : r \in 1..Len(src)} :
        /\ \A r \in 1..Len(src) : lo <= src[r].n /\ src[r].n <= hi
        /\ \A r \in 1..Len(src) :
               /\ col[r].t = "float"
               /\ IF hi = lo THEN col[r].n = 0
                  ELSE col[r].n * (hi - lo) = (src[r].n - lo) * col[r].d

\* col is the robust scaling of src: the distance from the median in units
\* of the interquartile range (in units of 1 when that range is 0)
IsRobustOf(col, src) ==
    LET sorted == SortInts([r \in 1..Len(src) |-> src[r].n])
        median4 == Quartile4(sorted, 2)
        iqr4 == Quartile4(sorted, 3) - Quartile4(sorted, 1)
    IN \A r \in 1..Len(src) :
           /\ col[r].t = "float"
           /\ col[r].n * (IF iqr4 = 0 THEN 4 ELSE iqr4)
                  = (4 * src[r].n - median4) * col[r].d

\* C16: normalize_numeric replaces the listed columns, and only them, by
\* their scaling (robust for method "robust", min-max for any other
\* method); the unlisted columns, the column order, the row count and the
\* row order stay.
NormalizeTouchesListedOnly ==
    (fn = "normalize_numeric" /\ fn_pc = "done") =>
        LET df == fn_args.df
            columns == fn_args.columns
        IN /\ fn_out.cols = df.cols
           /\ Len(fn_out.rows) = Len(df.rows)
           /\ \A c \in 1..Len(df.cols) :
                  IF df.cols[c] \notin Range(columns)
                  THEN Column(fn_out, c) = Column(df, c)
                  ELSE IF fn_args.method = "robust"
                  THEN IsRobustOf(Column(fn_out, c), Column(df, c))
                  ELSE IsMinMaxOf(Column(fn_out, c), Column(df, c))

\* a method that is neither "robust" nor the name of the min-max scaler, one
\* listed column running from 4 down to 1, one unlisted number column
NormalizeTouchesListedOnlyWitness ==
    /\ fn = "normalize_numeric" /\ fn_pc = "done"
    /\ fn_args.method = "standard"
    /\ fn_args.columns = <<N_a>>
    /\ Len(fn_args.df.rows) = 2
    /\ fn_args.df.rows[1][1] = IntV(4) /\ fn_args.df.rows[2][1] = IntV(1)
    /\ fn_args.df.rows[1][2] # fn_args.df.rows[2][2]
    /\ Column(fn_out, 1) = <<FloatV(1, 1), FloatV(0, 1)>>
    /\ Column(fn_out, 2) = Column(fn_args.df, 2)

-----------------------------------------------------------------------------
(* client_spend_pipeline.build_flow_records (lines 139-184)                *)

N_origin == <<"o","r","i","g","i","n">>
N_origin_zip == <<"o","r","i","g","i","n","_","z","i","p">>
N_dest_zip == <<"d","e","s","t","_","z","i","p">>
N_magnitude == <<"m","a","g","n","i","t","u","d","e">>
T_destination == <<"d","e","s","t","i","n","a","t","i","o","n">>

\* lines 146-150, over the lower-cased column names
DetectDestCol(cols) ==
    FirstWhere(cols, LAMBDA c : Contains(c, T_destination) /\ Contains(c, T_zip))

\* a priority order that prefers impressions
MagnitudeFieldsReversed == <<N_impressions, N_visits, N_spend>>

\* line 178
MagnitudeFields == <<N_spend, N_visits, N_impressions>>

\* lines 163-175
LineFeature(from, to, props) ==
    [type |-> "Feature",
     geometry |-> [type |-> "LineString", coordinates |-> <<from, to>>],
     properties |-> props]

\* lines 157-158: str(row[col]).zfill(5)
FlowZip(df, row, col) == ZFill(ToStr(row[FieldIdx(df.cols, col)]), HeatZipWidth)

\* lines 163-183: the flow of one row whose ends are the reference rows
\* orec0 and drec0
FlowRecord(df, row, ozip, dzip, orec0, drec0, zip_latlon) ==
    LET lon == FieldIdx(zip_latlon.cols, N_longitude)
        lat == FieldIdx(zip_latlon.cols, N_latitude)
        ends == [cols |-> <<N_origin_zip, N_dest_zip>>,
                 vals |-> <<StrV(ozip), StrV(dzip)>>]
        present == SelectIdx(Len(MagnitudeFields),
                       LAMBDA k : FieldIdx(df.cols, MagnitudeFields[k]) # 0)
        props == IF present = <<>> THEN ends
                 ELSE LET field == MagnitudeFields[present[1]]
                          v == row[FieldIdx(df.cols, field)]
                      IN DictSet(DictSet(ends, field, v), N_magnitude, v)
    IN LineFeature(<<ToFloat(orec0[lon]), ToFloat(orec0[lat])>>,
                   <<ToFloat(drec0[lon]), ToFloat(drec0[lat])>>, props)

\* build_flow_records(df, zip_latlon): the flows, the locals the function
\* computed on the way, and status "ok" or the exception raised
BuildFlowRecords(df, zip_latlon) ==
    LET lowered == [cols |-> [c \in 1..Len(df.cols) |-> Lower(df.cols[c])],
                    rows |-> df.rows]
        dest_col == DetectDestCol(lowered.cols)
        expanded == ExpandZipList(dest_col, lowered)
        matched(r) ==
            LET row == expanded.rows[r]
            IN /\ HeatRec(zip_latlon, FlowZip(expanded, row, N_origin)) # <<>>
               /\ HeatRec(zip_latlon, FlowZip(expanded, row, dest_col)) # <<>>
        kept == SelectIdx(Len(expanded.rows), matched)
        flow(r) ==
            LET row == expanded.rows[r]
                ozip == FlowZip(expanded, row, N_origin)
                dzip == FlowZip(expanded, row, dest_col)
            IN FlowRecord(expanded, row, ozip, dzip,
                          zip_latlon.rows[HeatRec(zip_latlon, ozip)[1]],
                          zip_latlon.rows[HeatRec(zip_latlon, dzip)[1]],
                          zip_latlon)
        base == [dest_col |-> dest_col, expanded |-> lowered, looked_up |-> FALSE,
                 status |-> "ok", flows |-> <<>>]
    IN IF FieldIdx(lowered.cols, N_origin) = 0 \/ dest_col = NoColumn
       THEN base
       ELSE IF kept # <<>> /\ (FieldIdx(zip_latlon.cols, N_longitude) = 0
                                \/ FieldIdx(zip_latlon.cols, N_latitude) = 0)
       THEN \* the first matched row reads a coordinate column that is absent
            [base EXCEPT !.expanded = expanded, !.looked_up = TRUE,
                         !.status = "KeyError"]
       ELSE [base EXCEPT !.expanded = expanded, !.looked_up = TRUE,
                         !.flows = [k \in 1..Len(kept) |-> flow(kept[k])]]

-----------------------------------------------------------------------------
(* Specification of client_spend_pipeline.main on data: the tables loaded  *)
(* from the archives go through the loop of lines 320-325, the check of    *)
(* lines 327-328, the cross-dataset aggregation and the three writes.      *)
(* cl_stages notes each stage entered: "ingest", "normalize", "aggregate", *)
(* "join" and "render".                                                    *)

Z_blank == <<" ">>
Z10001_99999 == <<"1","0","0","0","1",";","9","9","9","9","9">>

F_heatmap == "zip_heatmap.json"
F_flows == "flows.json"
F_html == "output_html"

\* line 328
E_no_zip_data == "RuntimeError: No ZIP-level data found in provided files"

\* the tables a run can find in its archives: with a ZIP and a DMA column,
\* with a ZIP column alone, with neither, with origins and destinations,
\* with origins alone, and with a ZIP column of blank cells
ClientDatasetPool ==
    {[cols |-> <<N_ZIP, N_DMA, N_spend>>,
      rows |-> <<<<StrV(Z10001), StrV(D_NY), IntV(5)>>,
                 <<IntV(501), StrV(D_NY), IntV(7)>>>>],
     [cols |-> <<N_zipcode, N_visits>>,
      rows |-> <<<<StrV(Z10001_99999), IntV(3)>>>>],
     [cols |-> <<N_region, N_spend>>,
      rows |-> <<<<StrV(D_NY), IntV(9)>>>>],
     [cols |-> <<N_origin, N_destination_zip, N_visits>>,
      rows |-> <<<<IntV(501), StrV(Z10001_99999), IntV(4)>>>>],
     [cols |-> <<N_origin, N_spend>>,
      rows |-> <<<<StrV(Z10001), IntV(2)>>>>],
     [cols |-> <<N_ZIP, N_spend>>,
      rows |-> <<<<StrV(Z_blank), IntV(1)>>>>]}

\* the reference CSVs: empty, and ZIPs 10001 and 501 under either naming of
\* the coordinate columns
ClientLatLonPool ==
    {PrepareZipLatLon([cols |-> layout, rows |-> rows]) :
        layout \in RawLatLonLayouts,
        rows \in {<<>>, <<<<IntV(10001), IntV(40), IntV(-74)>>,
                          <<IntV(501), IntV(42), IntV(-72)>>>>}}

ClientRunInit ==
    /\ cl_datasets \in SeqsUpTo(ClientDatasetPool, MaxFiles)
    /\ cl_latlon \in ClientLatLonPool
    /\ cl_i = 0
    /\ cl_agg = EmptyFrame
    /\ cl_parts = <<>>
    /\ cl_flows = <<>>
    /\ cl_stages = <<>>
    /\ cl_files = <<>>
    /\ cl_error = "none"
    /\ cl_pc = "ingest"

ClientOthersUnchanged ==
    UNCHANGED <<exVars, agVars, amVars, gmVars, rpVars, hfVars, mfVars, mnVars,
                ldVars, fnVars, cl_datasets, cl_latlon>>

\* a failure after which the statement is tried again
ClientRaiseAndRetry(exc) ==
    /\ cl_error' = exc
    /\ cl_pc' = cl_pc

\* the statement at cl_pc raises exc and nothing catches it
ClientRaise(exc) ==
    /\ cl_error' = exc
    /\ cl_pc' = "raised"

ClientGoto(pc) ==
    /\ cl_error' = cl_error
    /\ cl_pc' = pc

\* DataFrame.empty
IsEmptyFrame(df) == df.cols = <<>> \/ df.rows = <<>>

\* lines 292-318: arguments, token, downloads, extraction, loading and the
\* reference table; any of them can fail
ClientIngest ==
    /\ cl_pc = "ingest"
    /\ cl_stages' = Append(cl_stages, "ingest")
    /\ \E exc \in {"none", "RuntimeError: MAPBOX_TOKEN", "HTTPError", "BadZipFile",
                   "FileNotFoundError"} :
          IF exc # "none" THEN ClientRaise(exc) /\ cl_i' = cl_i
          ELSE /\ cl_i' = 1
               /\ ClientGoto(IF cl_datasets = <<>> THEN "check_parts"
                             ELSE "aggregate_by_geo")
    /\ UNCHANGED <<cl_agg, cl_parts, cl_flows, cl_files>>
    /\ ClientOthersUnchanged

\* lines 321-323 once aggregate_by_geo has given res: the function returns
\* before normalising when it finds no ZIP column, and otherwise normalises
\* and groups
ClientAggregated(res) ==
    /\ cl_stages' = IF res.zip_col = NoColumn THEN cl_stages
                    ELSE cl_stages \o <<"normalize", "aggregate">>
    /\ IF res.status # "ok"
       THEN /\ ClientRaise(res.status)
            /\ UNCHANGED <<cl_agg, cl_parts>>
       ELSE /\ ClientGoto("build_flow_records")
            /\ cl_agg' = res.out
            /\ cl_parts' = IF IsEmptyFrame(res.out) THEN cl_parts
                           ELSE Append(cl_parts, res.out)

\* lines 321-323
ClientAggregateDataset ==
    /\ cl_pc = "aggregate_by_geo"
    /\ ClientAggregated(AggregateByGeo(cl_datasets[cl_i]))
    /\ UNCHANGED <<cl_i, cl_flows, cl_files>>
    /\ ClientOthersUnchanged

\* lines 324-325 once build_flow_records has given res, and the loop's
\* advance
ClientFlowsBuilt(res) ==
    /\ cl_stages' = IF res.looked_up THEN Append(cl_stages, "join")
                    ELSE cl_stages
    /\ IF res.status # "ok"
       THEN ClientRaise(res.status) /\ UNCHANGED <<cl_i, cl_flows>>
       ELSE /\ cl_flows' = cl_flows \o res.flows
            /\ cl_i' = cl_i + 1
            /\ ClientGoto(IF cl_i < Len(cl_datasets) THEN "aggregate_by_geo"
                          ELSE "check_parts")

\* lines 324-325
ClientBuildFlows ==
    /\ cl_pc = "build_flow_records"
    /\ ClientFlowsBuilt(BuildFlowRecords(cl_datasets[cl_i], cl_latlon))
    /\ UNCHANGED <<cl_agg, cl_parts, cl_files>>
    /\ ClientOthersUnchanged

\* a check that lets every run through
ClientCheckAggregatedNever ==
    /\ cl_pc = "check_parts"
    /\ ClientGoto("combine")
    /\ UNCHANGED <<cl_i, cl_agg, cl_parts, cl_flows, cl_stages, cl_files>>
    /\ ClientOthersUnchanged

\* lines 327-328
ClientCheckAggregated ==
    /\ cl_pc = "check_parts"
    /\ IF cl_parts = <<>>
       THEN ClientRaise(E_no_zip_data)
       ELSE ClientGoto("combine")
    /\ UNCHANGED <<cl_i, cl_agg, cl_parts, cl_flows, cl_stages, cl_files>>
    /\ ClientOthersUnchanged

\* lines 330-331: the parts are stacked and grouped by ZIP and DMA, which
\* raises KeyError when no part has a DMA column
ClientCombineParts ==
    /\ cl_pc = "combine"
    /\ cl_stages' = Append(cl_stages, "aggregate")
    /\ IF \A p \in 1..Len(cl_parts) : FieldIdx(cl_parts[p].cols, N_DMA) = 0
       THEN ClientRaise("KeyError")
       ELSE ClientGoto("create_heatmap_features")
    /\ UNCHANGED <<cl_i, cl_agg, cl_parts, cl_flows, cl_files>>
    /\ ClientOthersUnchanged

\* line 333: the aggregated rows are looked up in the reference table
ClientHeatFeatures ==
    /\ cl_pc = "create_heatmap_features"
    /\ cl_stages' = Append(cl_stages, "join")
    /\ ClientGoto("write_heatmap")
    /\ UNCHANGED <<cl_i, cl_agg, cl_parts, cl_flows, cl_files>>
    /\ ClientOthersUnchanged

\* lines 334-343: zip_heatmap.json, flows.json and the HTML page
ClientWriteFile ==
    /\ cl_pc \in {"write_heatmap", "write_flows", "write_html"}
    /\ cl_stages' = Append(cl_stages, "render")
    /\ \E ok \in BOOLEAN :
          IF ~ok THEN ClientRaise("OSError") /\ cl_files' = cl_files
          ELSE /\ cl_files' = Append(cl_files,
                                 CASE cl_pc = "write_heatmap" -> F_heatmap
                                   [] cl_pc = "write_flows" -> F_flows
                                   [] OTHER -> F_html)
               /\ ClientGoto(CASE cl_pc = "write_heatmap" -> "write_flows"
                               [] cl_pc = "write_flows" -> "write_html"
                               [] OTHER -> "done")
    /\ UNCHANGED <<cl_i, cl_agg, cl_parts, cl_flows>>
    /\ ClientOthersUnchanged

ClientNext ==
    \/ ClientIngest
    \/ ClientAggregateDataset
    \/ ClientBuildFlows
    \/ ClientCheckAggregated
    \/ ClientCombineParts
    \/ ClientHeatFeatures
    \/ ClientWriteFile

\* a run of client main on data, or a run of run_pipeline
StagesInit ==
    \/ /\ ExpandIdle /\ AggIdle /\ MetricsIdle /\ MapZipIdle /\ PipelineIdle
       /\ HeatIdle /\ FlowFeaturesIdle /\ MainIdle /\ LoadIdle /\ CallIdle
       /\ ClientRunInit
    \/ /\ ExpandIdle /\ AggIdle /\ MetricsIdle /\ MapZipIdle /\ PipelineIdle
       /\ HeatIdle /\ FlowFeaturesIdle /\ ClientIdle /\ LoadIdle /\ CallIdle
       /\ ScriptsInit
       /\ IsPipeline

StagesNext ==
    \/ ClientNext
    \/ PipeLoadSource
    \/ PipeFillMissing
    \/ PipeNormalize
    \/ PipeEncode
    \/ PipeMapZip
    \/ PipeMerge
    \/ PipeModel
    \/ PipeChoropleth
    \/ PipeDashboard

-----------------------------------------------------------------------------
(* Claims about the stages of a run (specification SpecStages).            *)

ClientRuns == cl_pc # "idle"

\* the stage a step of run_pipeline belongs to
PipeStage(e) ==
    CASE e \in {"download", "load"} -> "ingest"
      [] e \in {"clean", "normalize", "encode"} -> "normalize"
      [] e = "join" -> "join"
      [] e \in {"write", "render"} -> "render"
      [] OTHER -> e

\* the stages the run entered, in order
StageTrace ==
    IF ClientRuns THEN cl_stages
    ELSE [k \in 1..Len(mn_effects) |-> PipeStage(mn_effects[k])]

RunError == IF ClientRuns THEN cl_error ELSE mn_error

RunPc == IF ClientRuns THEN cl_pc ELSE mn_pc

StageRank(s) ==
    CASE s = "ingest" -> 1
      [] s = "normalize" -> 2
      [] s = "aggregate" -> 3
      [] s = "join" -> 4
      [] s = "render" -> 5
      [] OTHER -> 0

\* how often the stage was entered
Entries(trace, s) == Cardinality({k \in 1..Len(trace) : trace[k] = s})

\* the run never goes back to an earlier one of the five stages
NeverBackToEarlierStage(trace) ==
    \A j, k \in 1..Len(trace) :
        (j < k /\ StageRank(trace[j]) # 0 /\ StageRank(trace[k]) # 0)
            => StageRank(trace[j]) <= StageRank(trace[k])

-----------------------------------------------------------------------------
(* Claims about data without ZIP codes (specification SpecStages).         *)

HasZipColumn(df) ==
    \E c \in 1..Len(df.cols) : Contains(Lower(df.cols[c]), T_zip)

\* the loop over the datasets is over and the check of its result is made
PastCheck == cl_i = Len(cl_datasets) + 1 /\ cl_pc # "check_parts"

\* C18: aggregate_by_geo gives the empty table for a table without a column
\* whose lower-cased name contains "zip"; when every loaded dataset
\* aggregated to an empty table, and only then, main raises the RuntimeError
\* about ZIP-level data, and that run has written none of its three files.
NoZipDataAbortsBeforeOutput ==
    /\ cl_pc = "build_flow_records" =>
           (~HasZipColumn(cl_datasets[cl_i]) => cl_agg = EmptyFrame)
    /\ (ClientRuns /\ PastCheck) =>
           (cl_error = E_no_zip_data
                <=> \A i \in 1..Len(cl_datasets) :
                        IsEmptyFrame(AggregateByGeo(cl_datasets[i]).out))
    /\ cl_error = E_no_zip_data =>
           /\ PastCheck
           /\ cl_pc = "raised"
           /\ cl_files = <<>>
           /\ Entries(cl_stages, "render") = 0

\* two datasets, none with a ZIP column, one of them with origins: the run
\* ended at the check with nothing written
NoZipDataAbortsBeforeOutputWitness ==
    /\ cl_error = E_no_zip_data
    /\ Len(cl_datasets) = 2
    /\ \A i \in 1..2 : ~HasZipColumn(cl_datasets[i])
    /\ \E i \in 1..2 : FieldIdx(cl_datasets[i].cols, N_origin) # 0
    /\ cl_files = <<>>

-----------------------------------------------------------------------------
(* Calls of build_flow_records on drawn tables and reference tables.       *)

N_Origin == <<"O","r","i","g","i","n">>
N_Destination_ZIP == <<"D","e","s","t","i","n","a","t","i","o","n","_","Z","I","P">>

FlowLayouts ==
    {<<N_origin, N_destination_zip, N_spend>>,
     <<N_Origin, N_Destination_ZIP, N_visits, N_spend>>,
     <<N_origin, N_destination_zip, N_impressions, N_visits>>,
     <<N_origin, N_destination_zip>>,
     <<N_origin, N_zip, N_spend>>,
     <<N_destination_zip, N_spend>>}

FlowOrigins == {IntV(501), StrV(Z99999)}

FlowDestinations == {StrV(Z10001_99999), IntV(10001), StrV(Z_blank)}

FlowRow(layout, o, d) ==
    [c \in 1..Len(layout) |->
        IF Lower(layout[c]) = N_origin THEN o
        ELSE IF Contains(Lower(layout[c]), T_zip) THEN d
        ELSE IF layout[c] = N_spend THEN IntV(5)
        ELSE IF layout[c] = N_visits THEN IntV(3)
        ELSE FloatV(1, 2)]

FlowTables ==
    {[cols |-> layout,
      rows |-> [r \in 1..Len(ends) |-> FlowRow(layout, ends[r][1], ends[r][2])]] :
        layout \in FlowLayouts,
        ends \in SeqsUpTo(FlowOrigins \X FlowDestinations, MaxRows)}

\* reference tables as main prepares them; one layout has no longitude
FlowLatLonPool ==
    ClientLatLonPool \cup
        {PrepareZipLatLon([cols |-> <<N_zip, N_latitude>>,
                           rows |-> <<<<IntV(10001), IntV(40)>>,
                                      <<IntV(501), IntV(42)>>>>])}

BuildFlowRecordsInit ==
    /\ fn = "build_flow_records"
    /\ fn_args \in [df : FlowTables, zip_latlon : FlowLatLonPool]
    /\ fn_out = <<>>
    /\ fn_pc = "call"

CallBuildFlowRecords ==
    /\ fn = "build_flow_records" /\ fn_pc = "call"
    /\ fn_out' = BuildFlowRecords(fn_args.df, fn_args.zip_latlon)
    /\ fn_pc' = "done"
    /\ CallOthersUnchanged

FlowsInit ==
    /\ ExpandIdle /\ AggIdle /\ MetricsIdle /\ MapZipIdle /\ PipelineIdle
    /\ HeatIdle /\ FlowFeaturesIdle /\ ClientIdle /\ MainIdle /\ LoadIdle
    /\ BuildFlowRecordsInit

FlowsNext == CallBuildFlowRecords

-----------------------------------------------------------------------------
(* Claims about the flows (specification SpecFlows).                       *)

\* the ZIPs of the reference table
ReferenceZips(zip_latlon) ==
    {zip_latlon.rows[m][FieldIdx(zip_latlon.cols, N_ZIP)].s :
        m \in 1..Len(zip_latlon.rows)}

HasCoordinates(zip_latlon) ==
    /\ FieldIdx(zip_latlon.cols, N_latitude) # 0
    /\ FieldIdx(zip_latlon.cols, N_longitude) # 0

\* the value of a property of a flow, NaN when the flow has none of the name
FlowProperty(flow, name) ==
    IF FieldIdx(flow.properties.cols, name) = 0 THEN NaN
    ELSE flow.properties.vals[FieldIdx(flow.properties.cols, name)]

-----------------------------------------------------------------------------
(* spending_heatmap.main (lines 7-84): the key columns of the merge, given *)
(* on the command line or inferred from the columns of the two files       *)

N_geometry == <<"g","e","o","m","e","t","r","y">>

\* an option that was left out, and one that was given
OptionAbsent == [given |-> FALSE, value |-> <<>>]
OptionGiven(v) == [given |-> TRUE, value |-> v]

E_geo_key == "ValueError: Specify --geo-key; could not infer column name."
E_data_key == "ValueError: Specify --data-key; could not infer column name."

\* an inference that looks for a DMA column first
InferKeyDmaFirst(option, cols, error) ==
    IF option.given THEN Returned(option.value)
    ELSE IF FieldIdx(cols, N_DMA) # 0 THEN Returned(N_DMA)
    ELSE IF FieldIdx(cols, N_ZIP) # 0 THEN Returned(N_ZIP)
    ELSE Raised(error)

\* lines 26-33 and 35-42: the option if given, else ZIP, else DMA, else the
\* error
InferKey(option, cols, error) ==
    IF option.given THEN Returned(option.value)
    ELSE IF FieldIdx(cols, N_ZIP) # 0 THEN Returned(N_ZIP)
    ELSE IF FieldIdx(cols, N_DMA) # 0 THEN Returned(N_DMA)
    ELSE Raised(error)

\* main on the arguments a: what it did, in order, the keys it settled on
\* and "ok" or the exception that ended it
SpendingHeatmapMain(a) ==
    LET geo == InferKey(a.geo_key, a.geo_cols, E_geo_key)
        data == InferKey(a.data_key, a.data_cols, E_data_key)
        run == [effects |-> <<>>, geo_key |-> OptionAbsent,
                data_key |-> OptionAbsent, status |-> "ok"]
        read == <<"read_csv", "read_file">>
    IN IF ~a.csv_readable
       THEN [run EXCEPT !.status = "FileNotFoundError"]
       ELSE IF ~a.shapefile_readable
       THEN [run EXCEPT !.effects = <<"read_csv">>, !.status = "DriverError"]
       ELSE IF geo.status # "ok"
       THEN [run EXCEPT !.effects = read, !.status = geo.status]
       ELSE IF data.status # "ok"
       THEN [run EXCEPT !.effects = read, !.geo_key = OptionGiven(geo.value),
                        !.status = data.status]
       ELSE LET keys == [run EXCEPT !.effects = read,
                                    !.geo_key = OptionGiven(geo.value),
                                    !.data_key = OptionGiven(data.value)]
            IN IF \/ FieldIdx(a.geo_cols, geo.value) = 0
                  \/ FieldIdx(a.data_cols, data.value) = 0
               THEN \* lines 45-46
                    [keys EXCEPT !.status = "KeyError"]
               ELSE IF FieldIdx(a.data_cols, a.spend_field) = 0
               THEN \* lines 49-50
                    [keys EXCEPT !.status = "KeyError"]
               ELSE [keys EXCEPT
                       !.effects = read \o <<"merge", "plot", "savefig">>]

HeatmapGeoLayouts ==
    {<<N_ZIP, N_geometry>>, <<N_DMA, N_geometry>>, <<N_DMA, N_ZIP, N_geometry>>,
     <<N_zip, N_geometry>>, <<N_geometry>>}

HeatmapDataLayouts ==
    {<<N_ZIP, N_spend>>, <<N_DMA, N_spend>>, <<N_DMA, N_ZIP, N_spend>>,
     <<N_zipcode, N_spend>>, <<N_ZIP, N_amount>>}

HeatmapKeyOptions ==
    {OptionAbsent, OptionGiven(N_ZIP), OptionGiven(N_DMA), OptionGiven(N_zip),
     OptionGiven(<<>>)}

SpendingHeatmapInit ==
    /\ fn = "spending_heatmap.main"
    /\ fn_args \in [geo_key : HeatmapKeyOptions, data_key : HeatmapKeyOptions,
                    spend_field : {N_spend}, geo_cols : HeatmapGeoLayouts,
                    data_cols : HeatmapDataLayouts,
                    csv_readable : BOOLEAN, shapefile_readable : BOOLEAN]
    /\ fn_out = <<>>
    /\ fn_pc = "call"

CallSpendingHeatmap ==
    /\ fn = "spending_heatmap.main" /\ fn_pc = "call"
    /\ fn_out' = SpendingHeatmapMain(fn_args)
    /\ fn_pc' = "done"
    /\ CallOthersUnchanged

KeysInit ==
    /\ ExpandIdle /\ AggIdle /\ MetricsIdle /\ MapZipIdle /\ PipelineIdle
    /\ HeatIdle /\ FlowFeaturesIdle /\ ClientIdle /\ MainIdle /\ LoadIdle
    /\ SpendingHeatmapInit

KeysNext == CallSpendingHeatmap

-----------------------------------------------------------------------------
(* Claims about the key inference (specification SpecKeys).                *)

\* the key the claim gives for an option and the columns of its file
ClaimedKey(option, cols) ==
    CASE option.given -> option
      [] ~option.given /\ N_ZIP \in Range(cols) -> OptionGiven(N_ZIP)
      [] ~option.given /\ N_ZIP \notin Range(cols) /\ N_DMA \in Range(cols) ->
             OptionGiven(N_DMA)
      [] OTHER -> OptionAbsent

Produced(run) == {run.effects[k] : k \in 1..Len(run.effects)}

\* C20: in a run of spending_heatmap.main that has read both files, a key
\* given on the command line is used as it is, and a key left out is "ZIP"
\* if the file has a ZIP column, else "DMA" if it has a DMA column, else the
\* run ends with the ValueError naming the option (the shapefile's key is
\* settled first); a run that ended with either ValueError merged nothing,
\* plotted nothing and saved no image.
KeysGivenOrInferred ==
    (fn = "spending_heatmap.main" /\ fn_pc = "done"
        /\ fn_args.csv_readable /\ fn_args.shapefile_readable) =>
        LET geo == ClaimedKey(fn_args.geo_key, fn_args.geo_cols)
            data == ClaimedKey(fn_args.data_key, fn_args.data_cols)
        IN /\ fn_out.status = E_geo_key <=> ~geo.given
           /\ fn_out.status = E_data_key <=> (geo.given /\ ~data.given)
           /\ geo.given => fn_out.geo_key = geo
           /\ (geo.given /\ data.given) => fn_out.data_key = data
           /\ fn_out.status \in {E_geo_key, E_data_key} =>
                  Produced(fn_out) \cap {"merge", "plot", "savefig"} = {}

\* the shapefile has DMA and ZIP columns and no key was given for it: ZIP is
\* taken; the CSV has neither and no key was given: the run ends with the
\* error about --data-key, nothing merged
KeysGivenOrInferredWitness ==
    /\ fn = "spending_heatmap.main" /\ fn_pc = "done"
    /\ fn_args.geo_key = OptionAbsent /\ fn_args.data_key = OptionAbsent
    /\ fn_args.geo_cols = <<N_DMA, N_ZIP, N_geometry>>
    /\ fn_args.data_cols = <<N_zipcode, N_spend>>
    /\ fn_out.geo_key = OptionGiven(N_ZIP)
    /\ fn_out.status = E_data_key
    /\ "merge" \notin Produced(fn_out)

-----------------------------------------------------------------------------
(* run_pipeline with dated tables: src/pipeline/main.py, lines 34-74, and         *)
(* bucket_time, src/pipeline/preprocessing.py, lines 57-61.  A datetime value is  *)
(* a cell of type "date" holding its ISO text, a period a cell of type "period"   *)
(* holding the year and the month; NaT is the missing value.                      *)

N_date == <<"d","a","t","e">>
N_period == <<"p","e","r","i","o","d">>
Date_2024_01_15 == <<"2","0","2","4","-","0","1","-","1","5">>
Date_2024_02_01 == <<"2","0","2","4","-","0","2","-","0","1">>
Date_epoch == <<"1","9","7","0","-","0","1","-","0","1">>
Date_before_epoch == <<"1","9","6","9","-","1","2","-","3","1">>

IsIsoDate(s) ==
    /\ Len(s) = 10
    /\ \A i \in 1..10 :
           IF i \in {5, 8} THEN s[i] = "-" ELSE s[i] \in Range(DigitChars)

\* pd.to_datetime(..., errors="coerce") on one value: a number counts nanoseconds
\* from the epoch, a text that is no date becomes NaT
ToDatetime(v) ==
    IF v.t \in {"int", "float"}
    THEN [t |-> "date", n |-> 0, d |-> 1,
          s |-> IF v.n < 0 THEN Date_before_epoch ELSE Date_epoch]
    ELSE IF v.t = "str" /\ IsIsoDate(v.s) THEN [t |-> "date", n |-> 0, d |-> 1, s |-> v.s]
    ELSE IF v.t = "date" THEN v
    ELSE NaN

\* Series.dt.to_period("M") on one value
ToPeriod(v) ==
    IF v.t = "date" THEN [t |-> "period", n |-> 0, d |-> 1, s |-> SubSeq(v.s, 1, 7)]
    ELSE NaN

\* preprocessing.py, lines 57-61 (the date column exists at every call site)
BucketTime(df, date_col) ==
    LET c == FieldIdx(df.cols, date_col)
        at(r) == ToDatetime(df.rows[r][c])
    IN [cols |-> df.cols \o <<N_period>>,
        rows |-> [r \in 1..Len(df.rows) |->
                     [k \in 1..Len(df.cols) |->
                         IF k = c THEN at(r) ELSE df.rows[r][k]]
                     \o <<ToPeriod(at(r))>>]]

\* main.py, line 74
PipelineMergeKeys == <<N_ZIP, N_DMA, N_STATE, N_period>>

\* the spend table as read_csv returns it: ZIP as text, the date as text, as a
\* number, or absent
DatedSpendLayouts ==
    {<<N_ZIP, N_date, N_spend>>, <<N_ZIP, N_channel, N_spend>>,
     <<N_ZIP, N_date, N_channel, N_spend>>}

DatedCell(name) ==
    IF name = N_ZIP THEN {StrV(Z10001), StrV(Z00501)}
    ELSE IF name = N_date
    THEN {StrV(Date_2024_01_15), StrV(Date_2024_02_01), IntV(20240115)}
    ELSE IF name = N_channel THEN {StrV(C_tv)}
    ELSE {IntV(100), IntV(150)}

DatedRows(cols) ==
    {row \in [1..Len(cols) -> UNION {DatedCell(cols[c]) : c \in 1..Len(cols)}] :
        \A c \in 1..Len(cols) : row[c] \in DatedCell(cols[c])}

DatedSpendTables ==
    UNION {{[cols |-> cols, rows |-> rs] :
               rs \in SeqsUpTo(DatedRows(cols), MaxRows) \ {<<>>}} :
           cols \in DatedSpendLayouts}

\* the visits table: absent (datasets.get gives an empty frame) or dated
DatedVisitTables ==
    {EmptyFrame,
     [cols |-> <<N_ZIP, N_date, N_visits>>,
      rows |-> <<<<StrV(Z10001), StrV(Date_2024_01_15), IntV(7)>>>>]}

RunPipelineInit ==
    /\ fn = "run_pipeline"
    /\ fn_args \in [spend : DatedSpendTables, visits : DatedVisitTables,
                    mapping : PipelineMappings]
    /\ fn_out = <<>>
    /\ fn_pc = "call"

RunPipelineStep(pc, spend, visits, dfs, calls, status) ==
    /\ fn_out' = [spend |-> spend, visits |-> visits, dfs |-> dfs,
                  calls |-> calls, status |-> status]
    /\ fn_pc' = pc
    /\ CallOthersUnchanged

\* lines 43-48
RunFillMissing ==
    /\ fn = "run_pipeline" /\ fn_pc = "call"
    /\ RunPipelineStep("filled", FillMissingValues(fn_args.spend),
                       FillMissingValues(fn_args.visits), <<>>,
                       <<"fill_missing_values">>, "ok")

\* lines 51-52
RunNormalize ==
    /\ fn = "run_pipeline" /\ fn_pc = "filled"
    /\ RunPipelineStep("normalized",
                       PipelineNormalizeNumeric(fn_out.spend,
                                                PipelineNumericCols(fn_out.spend)),
                       fn_out.visits, <<>>,
                       Append(fn_out.calls, "normalize_numeric"), "ok")

\* lines 55-56
RunEncode ==
    /\ fn = "run_pipeline" /\ fn_pc = "normalized"
    /\ RunPipelineStep("encoded",
                       EncodeCategoricalOnehot(fn_out.spend,
                                               PipelineCatCols(fn_out.spend)),
                       fn_out.visits, <<>>,
                       Append(fn_out.calls, "encode_categoricals"), "ok")

\* lines 59-60
RunBucketSpend ==
    /\ fn = "run_pipeline" /\ fn_pc = "encoded"
    /\ IF FieldIdx(fn_out.spend.cols, N_date) # 0
       THEN RunPipelineStep("bucketed", BucketTime(fn_out.spend, N_date),
                            fn_out.visits, <<>>,
                            Append(fn_out.calls, "bucket_time"), "ok")
       ELSE RunPipelineStep("bucketed", fn_out.spend, fn_out.visits, <<>>,
                            fn_out.calls, "ok")

\* lines 63-64
RunMapZip ==
    /\ fn = "run_pipeline" /\ fn_pc = "bucketed"
    /\ RunPipelineStep("mapped", MapZipToDma(fn_out.spend, N_ZIP, fn_args.mapping),
                       fn_out.visits, <<>>,
                       Append(fn_out.calls, "map_zip_to_dma"), "ok")

\* lines 68-73
RunCollect ==
    /\ fn = "run_pipeline" /\ fn_pc = "mapped"
    /\ IF IsEmptyFrame(fn_out.visits)
       THEN RunPipelineStep("collected", fn_out.spend, fn_out.visits,
                            <<fn_out.spend>>, fn_out.calls, "ok")
       ELSE RunPipelineStep("collected", fn_out.spend,
                            MapZipToDma(BucketTime(fn_out.visits, N_date), N_ZIP,
                                        fn_args.mapping),
                            <<fn_out.spend,
                              MapZipToDma(BucketTime(fn_out.visits, N_date), N_ZIP,
                                          fn_args.mapping)>>,
                            fn_out.calls, "ok")

RunMerged(res) ==
    RunPipelineStep(IF res.status = "ok" THEN "merged" ELSE "failed",
                    fn_out.spend, fn_out.visits, fn_out.dfs,
                    Append(fn_out.calls, "merge_on_keys"), res.status)

\* line 74
RunMerge ==
    /\ fn = "run_pipeline" /\ fn_pc = "collected"
    /\ RunMerged(MergeOnKeys(fn_out.dfs, PipelineMergeKeys))

BucketInit ==
    /\ ExpandIdle /\ AggIdle /\ MetricsIdle /\ MapZipIdle /\ PipelineIdle
    /\ HeatIdle /\ FlowFeaturesIdle /\ ClientIdle /\ MainIdle /\ LoadIdle
    /\ RunPipelineInit

BucketNext ==
    \/ RunFillMissing \/ RunNormalize \/ RunEncode \/ RunBucketSpend
    \/ RunMapZip \/ RunCollect \/ RunMerge

(* Claim C21 as the specification states it: when the spend dataset has a "date"  *)
(* column, the encoding step leaves that column in place, bucket_time has run on  *)
(* the spend table by the time merge_on_keys is called, and the spend table       *)
(* passed to merge_on_keys has a "period" column.                                 *)
MergeCalled == fn = "run_pipeline" /\ fn_pc \in {"merged", "failed"}

BucketingPrecedesMerging ==
    (fn = "run_pipeline" /\ FieldIdx(fn_args.spend.cols, N_date) # 0) =>
        /\ fn_pc = "encoded" => FieldIdx(fn_out.spend.cols, N_date) # 0
        /\ MergeCalled =>
               /\ "bucket_time" \in Range(fn_out.calls)
               /\ FieldIdx(fn_out.dfs[1].cols, N_period) # 0

-----------------------------------------------------------------------------
(* choropleth_by_spend.main with its paths: src/choropleth_by_spend.py, lines     *)
(* 39-49 and 52-112.  The run keeps the two local paths, the temporary files it   *)
(* created and the paths it unlinked.                                             *)

P_URL_upper == <<"H","T","T","P",":","/","/","h","/","a",".","z","i","p">>
P_url_plain == <<"h","t","t","p",":","/","/","h",".","i","o","/","d","a","t","a">>
P_http_zip == <<"h","t","t","p",".","z","i","p">>
T_tmp == <<"/","t","m","p","/","t","m","p">>

\* urlparse(path).path of an HTTP(S) URL without query: from the first slash
\* after the host
UrlPath(url) ==
    LET rest == IF StartsWith(url, T_https)
                THEN SubSeq(url, Len(T_https) + 1, Len(url))
                ELSE SubSeq(url, Len(T_http) + 1, Len(url))
        slashes == {i \in 1..Len(rest) : rest[i] = "/"}
    IN IF slashes = {} THEN <<>>
       ELSE SubSeq(rest, CHOOSE i \in slashes : \A j \in slashes : i <= j, Len(rest))

\* os.path.splitext(p)[1]: from the last dot of the last component, empty
\* when that component has no dot or only a leading one
SplitExt(p) ==
    LET i == LastDot(p)
    IN IF i <= 1 THEN <<>>
       ELSE IF \E j \in i..Len(p) : p[j] = "/" THEN <<>>
       ELSE IF p[i - 1] = "/" THEN <<>>
       ELSE SubSeq(p, i, Len(p))

\* the name tempfile.NamedTemporaryFile gives the k-th file of the run
TempName(k, suffix) == T_tmp \o ToStr(IntV(k)) \o suffix

\* lines 39-49: the path returned and the file created; ok tells whether the
\* request succeeds, k counts the temporary files created so far
DownloadIfUrl(path, ok, k) ==
    IF StartsWith(path, T_http) \/ StartsWith(path, T_https)
    THEN IF ok
         THEN [status |-> "ok", value |-> TempName(k + 1, SplitExt(UrlPath(path))),
               created |-> <<TempName(k + 1, SplitExt(UrlPath(path)))>>]
         ELSE [status |-> "HTTPError", value |-> <<>>, created |-> <<>>]
    ELSE [status |-> "ok", value |-> path, created |-> <<>>]

ShouldUnlinkAlways(local, arg) == TRUE

\* lines 109 and 111
ShouldUnlink(local, arg) == local # arg

ChoroplethPaths ==
    {P_url_zip, P_url_csv, P_zip, P_URL_upper, P_url_plain, P_http_zip}

ChoroplethInit ==
    /\ fn = "choropleth_by_spend.main"
    /\ fn_args \in [geometry_zip : ChoroplethPaths, data_zip : ChoroplethPaths]
    /\ fn_out = [geometry_zip_path |-> <<>>, data_zip_path |-> <<>>,
                 created |-> <<>>, unlinked |-> <<>>, error |-> "none"]
    /\ fn_pc = "download_geometry"

ChoroplethGoto(pc, changes) ==
    /\ fn_out' = [f \in DOMAIN fn_out |->
                     IF f \in DOMAIN changes THEN changes[f] ELSE fn_out[f]]
    /\ fn_pc' = pc
    /\ CallOthersUnchanged

ChoroplethDownloaded(res, field, next) ==
    IF res.status # "ok" THEN ChoroplethGoto("failed", [error |-> res.status])
    ELSE ChoroplethGoto(next, (field :> res.value)
                              @@ [created |-> fn_out.created \o res.created])

\* line 66
ChoroplethDownloadGeometry ==
    /\ fn = "choropleth_by_spend.main" /\ fn_pc = "download_geometry"
    /\ \E ok \in BOOLEAN :
          ChoroplethDownloaded(
              DownloadIfUrl(fn_args.geometry_zip, ok, Len(fn_out.created)),
              "geometry_zip_path", "download_data")

\* line 67
ChoroplethDownloadData ==
    /\ fn = "choropleth_by_spend.main" /\ fn_pc = "download_data"
    /\ \E ok \in BOOLEAN :
          ChoroplethDownloaded(
              DownloadIfUrl(fn_args.data_zip, ok, Len(fn_out.created)),
              "data_zip_path", "build_map")

\* lines 69-107: reading the archives, merging, rendering and saving the map
\* either succeeds or raises
ChoroplethBuildMap ==
    /\ fn = "choropleth_by_spend.main" /\ fn_pc = "build_map"
    /\ \E exc \in {"none", "FileNotFoundError", "KeyError", "OSError"} :
          IF exc = "none" THEN ChoroplethGoto("unlink_geometry", <<>>)
          ELSE ChoroplethGoto("failed", [error |-> exc])

\* lines 109-110
ChoroplethUnlinkGeometry ==
    /\ fn = "choropleth_by_spend.main" /\ fn_pc = "unlink_geometry"
    /\ IF ShouldUnlink(fn_out.geometry_zip_path, fn_args.geometry_zip)
       THEN ChoroplethGoto("unlink_data",
                [unlinked |-> Append(fn_out.unlinked, fn_out.geometry_zip_path)])
       ELSE ChoroplethGoto("unlink_data", <<>>)

\* lines 111-112
ChoroplethUnlinkData ==
    /\ fn = "choropleth_by_spend.main" /\ fn_pc = "unlink_data"
    /\ IF ShouldUnlink(fn_out.data_zip_path, fn_args.data_zip)
       THEN ChoroplethGoto("done",
                [unlinked |-> Append(fn_out.unlinked, fn_out.data_zip_path)])
       ELSE ChoroplethGoto("done", <<>>)

CleanupInit ==
    /\ ExpandIdle /\ AggIdle /\ MetricsIdle /\ MapZipIdle /\ PipelineIdle
    /\ HeatIdle /\ FlowFeaturesIdle /\ ClientIdle /\ MainIdle /\ LoadIdle
    /\ ChoroplethInit

CleanupNext ==
    \/ ChoroplethDownloadGeometry \/ ChoroplethDownloadData \/ ChoroplethBuildMap
    \/ ChoroplethUnlinkGeometry \/ ChoroplethUnlinkData

-----------------------------------------------------------------------------
(* Claims about the temporary files (specification SpecCleanup).                  *)

IsChoroplethRun == fn = "choropleth_by_spend.main"

HasHttpPrefix(p) ==
    \/ Len(p) >= 7 /\ SubSeq(p, 1, 7) = <<"h","t","t","p",":","/","/">>
    \/ Len(p) >= 8 /\ SubSeq(p, 1, 8) = <<"h","t","t","p","s",":","/","/">>

SuppliedPaths == {fn_args.geometry_zip, fn_args.data_zip}

LocalSupplied == {p \in SuppliedPaths : ~HasHttpPrefix(p)}

(* C22: choropleth_by_spend.main never unlinks a path the user supplied as a     *)
(* local file, only files that download_if_url created, each at most once; in a  *)
(* run that reaches the end every file download_if_url created has been          *)
(* unlinked; and download_if_url returns an argument that starts with neither    *)
(* http:// nor https:// as it is, creating no file.                              *)
CleanupSafeAndComplete ==
    IsChoroplethRun =>
        /\ \A i \in 1..Len(fn_out.unlinked) :
               /\ fn_out.unlinked[i] \notin LocalSupplied
               /\ fn_out.unlinked[i] \in Range(fn_out.created)
               /\ \A j \in 1..Len(fn_out.unlinked) :
                      fn_out.unlinked[i] = fn_out.unlinked[j] => i = j
        /\ fn_pc = "done" => Range(fn_out.created) = Range(fn_out.unlinked)
        /\ (fn_pc \notin {"download_geometry", "failed"}
               /\ ~HasHttpPrefix(fn_args.geometry_zip)) =>
               fn_out.geometry_zip_path = fn_args.geometry_zip
        /\ (fn_pc \in {"build_map", "unlink_geometry", "unlink_data", "done"}
               /\ ~HasHttpPrefix(fn_args.data_zip)) =>
               fn_out.data_zip_path = fn_args.data_zip
        /\ Len(fn_out.created) <= Cardinality({p \in {"g", "d"} :
               HasHttpPrefix(IF p = "g" THEN fn_args.geometry_zip
                             ELSE fn_args.data_zip)})

CleanupSafeAndCompleteWitness ==
    /\ IsChoroplethRun /\ fn_pc = "done"
    /\ fn_args.geometry_zip = P_url_zip /\ fn_args.data_zip = P_zip
    /\ Len(fn_out.created) = 1 /\ fn_out.unlinked = fn_out.created
    /\ fn_out.data_zip_path = P_zip

-----------------------------------------------------------------------------
(* Client runs on data without a DMA column (specification SpecStages).           *)

HasDmaColumn(df) ==
    \E c \in 1..Len(df.cols) : Contains(Lower(df.cols[c]), <<"d","m","a">>)

\* every loaded dataset has a ZIP column and none has a DMA column
ZipOnlyData ==
    /\ cl_datasets # <<>>
    /\ \A i \in 1..Len(cl_datasets) :
           HasZipColumn(cl_datasets[i]) /\ ~HasDmaColumn(cl_datasets[i])

(* Claim C23 as the specification states it: when the loaded datasets have a ZIP  *)
(* column and none has a DMA column, aggregate_by_geo groups by ZIP alone, and    *)
(* once the loop has left at least one aggregate the cross-dataset aggregation    *)
(* raises nothing, so that the run goes on to write its files.                    *)
ZipOnlyDataReachesOutput ==
    (ClientRuns /\ ZipOnlyData) =>
        /\ (cl_pc = "build_flow_records" /\ ~IsEmptyFrame(cl_agg)) =>
               /\ cl_agg.cols[1] = N_ZIP
               /\ FieldIdx(cl_agg.cols, N_DMA) = 0
        /\ (PastCheck /\ cl_parts # <<>>) => cl_error \in {"none", "OSError"}

-----------------------------------------------------------------------------
(* Totals of aggregate_metrics (specification SpecAgg).                           *)

\* the total of metric name over the rows of the input tables that keep at
\* least one key value
MetricsInputTotal(name) ==
    SumFn([i \in 1..Len(am_dfs) |->
              SumFn([r \in MetricsKeyed(am_dfs[i]) |-> MetricsRaw(am_dfs[i], r, name)])])

\* the total of column name of the output, 0 when the output has no such column
MetricsOutputTotal(name) ==
    LET c == FieldIdx(am.out.cols, name)
    IN IF c = 0 THEN 0
       ELSE SumFn([g \in 1..Len(am.out.rows) |->
                      am.out.rows[g][c].n \div am.out.rows[g][c].d])

(* Claim C24 as the specification states it: whenever aggregate_metrics returns   *)
(* a table, the total of the spend column of the output equals the total of       *)
(* spend over all input rows that have at least one non-missing geography key,    *)
(* whatever the tables call their key columns.                                    *)
MetricsConserveTotals ==
    (am_pc = "done" /\ am.status = "ok") =>
        MetricsOutputTotal(N_spend) = MetricsInputTotal(N_spend)

-----------------------------------------------------------------------------
(* The number of datasets (specification SpecLoad).                               *)

ReadableCount == Cardinality({i \in 1..Len(ld_files) : ReadableFile(ld_files[i])})

\* no path occurs twice in the list
DistinctPaths ==
    \A i, j \in 1..Len(ld_files) :
        (ld_files[i].dir = ld_files[j].dir /\ ld_files[i].name = ld_files[j].name)
            => i = j

(* Claim C25 as the specification states it: load_spreadsheets returns as many    *)
(* datasets as its list of distinct paths has readable CSV or Excel files, also   *)
(* when two files of different directories have the same base name.               *)
LoadOneDatasetPerReadableFile ==
    (ld_fn = "load_spreadsheets" /\ ld_pc = "returned" /\ DistinctPaths) =>
        Len(ld_datasets) = ReadableCount

-----------------------------------------------------------------------------
(* The specifications.                                                     *)

ExpandRunInit ==
    /\ ExpandInit /\ AggIdle /\ MetricsIdle /\ MapZipIdle /\ PipelineIdle
    /\ HeatIdle /\ FlowFeaturesIdle /\ ClientIdle /\ MainIdle /\ LoadIdle /\ CallIdle

SpecExpand == ExpandRunInit /\ [][Expand]_vars

\* the two aggregators, each called once on a drawn input
AggBothInit ==
    /\ ExpandIdle /\ MapZipIdle /\ PipelineIdle
    /\ HeatIdle /\ FlowFeaturesIdle /\ ClientIdle /\ MainIdle /\ LoadIdle /\ CallIdle
    /\ \/ AggInit /\ MetricsIdle
       \/ AggIdle /\ MetricsInit

AggNext == Aggregate \/ AggregateMetricsCall

SpecAgg == AggBothInit /\ [][AggNext]_vars

SpecGeo == GeoInit /\ [][GeoNext]_vars

SpecHeat == HeatBothInit /\ [][HeatNext]_vars

SpecMain == MainRunInit /\ [][MainNext]_vars

SpecLoad == LoadRunInit /\ [][LoadNext]_vars

SpecRuns == RunsInit /\ [][RunsNext]_vars

SpecIngest == IngestInit /\ [][IngestNext]_vars

SpecMerge == MergeInit /\ [][MergeNext]_vars

SpecEncode == EncodeInit /\ [][EncodeNext]_vars

SpecScale == ScaleInit /\ [][ScaleNext]_vars

SpecStages == StagesInit /\ [][StagesNext]_vars

SpecFlows == FlowsInit /\ [][FlowsNext]_vars

SpecKeys == KeysInit /\ [][KeysNext]_vars

SpecBucket == BucketInit /\ [][BucketNext]_vars

SpecCleanup == CleanupInit /\ [][CleanupNext]_vars

=============================================================================
